---- MODULE Spec2Model ----
(***************************************************************************)
(* A model of the GridDesigner animation sequencer                         *)
(* (src/stickfigureanimation.py): the StickFigureAnimation object, its     *)
(* viewport resolver (compute_viewport, compute_global_viewport) and the   *)
(* playback loop of the editor window (run_animation_gui).                 *)
(*                                                                         *)
(* A frame is the JSON object of a frame file: a function from field names *)
(* to values.  Its "boxes" field maps keys to integers; a key "r,c" is     *)
(* modelled by the list of fields key.split(",") yields, here <<r, c>>.    *)
(* A viewport is the tuple <<x0, y0, w, h>> the code returns.              *)
(* Python's 0-based index i of a list is the position i + 1 of a sequence. *)
(***************************************************************************)
EXTENDS Integers, Sequences, FiniteSets, TLC

VARIABLES
    \* ---- StickFigureAnimation.__init__ (src/stickfigureanimation.py:36-61)
    frames,            \* self.frames
    timings,           \* self.timings
    backgrounds,       \* self.backgrounds
    frame_names,       \* self.frame_names
    background_names,  \* self.background_names
    grid_width,        \* self.grid_width  (None is modelled by NoGrid)
    grid_height,       \* self.grid_height (None is modelled by NoGrid)
    default_color,     \* self.default_color
    viewport_mode,     \* self.viewport_mode
    viewport_padding,  \* self.viewport_padding
    viewport_min_w,    \* self.viewport_min_w
    viewport_min_h,    \* self.viewport_min_h
    lock_viewport,     \* self.lock_viewport
    \* ---- the last call of the viewport resolver and what it returned
    vp_call,
    vp_result,
    \* ---- run_animation_gui: the player of the editor window
    running_flag,      \* running['flag']
    running_loop,      \* running['loop']
    pending,           \* the root.after callbacks not yet fired: step(index) of a play
    plays,             \* the play_animation calls so far; each has its own step closure
    rendered,          \* the draw_frame_on_canvas calls made by step, in order
    stopped,           \* history: the plays that had a callback pending at a stop
    clean,             \* history: the last play started with nothing pending and
                       \* no other operation has run since
    \* ---- export_to_video: what imageio.mimsave received
    images,            \* the list images, each element with the index of its frame
    export_fps,        \* the fps of the export
    \* ---- the animation file written by save_animation
    saved,
    \* ---- the last call of the compositor and what it drew
    draw_call,
    draw_result,
    \* ---- the last call of an editing operation and what it returned
    op_call,
    op_result,
    \* ---- the step callback of the player that ran last: the exception it raised
    step_error,
    \* ---- InteractiveGrid and SetStickFigure (src/interactivegrid.py:8-18,
    \* ---- src/setstickfigure.py:9, 33)
    grid,              \* self.grid, by (row, col)
    grid_default,      \* self.default_color of the grid
    special_squares,   \* self.special_squares
    joint_vars,        \* self.joint_vars
    grid_call,         \* the last call on the grid, with the grid before it
    grid_result,       \* what it returned or raised
    streak,            \* history: the clicks made in a row on one cell
    \* ---- the launcher (src/main.py:14-15, src/app/flask_app.py:20-21)
    launched_process,  \* _launched_process
    launched_lock,     \* _launched_lock: the request that holds it
    alive,             \* the GUI processes started by Popen that have not exited
    spawned,           \* the Popen calls so far
    pc                 \* where each request is in its handler

seqVars == <<frames, timings, backgrounds, frame_names, background_names,
             grid_width, grid_height, default_color>>
policyVars == <<viewport_mode, viewport_padding, viewport_min_w,
                viewport_min_h, lock_viewport>>
vpVars == <<vp_call, vp_result>>
playVars == <<running_flag, running_loop, pending, plays, rendered, stopped, clean>>
exportVars == <<images, export_fps>>
drawVars == <<draw_call, draw_result>>
opVars == <<op_call, op_result>>
gridVars == <<grid, grid_default, special_squares, joint_vars, grid_call, grid_result, streak>>
srvVars == <<launched_process, launched_lock, alive, spawned, pc>>
toolVars == <<gridVars, srvVars>>
extVars == <<exportVars, saved, drawVars, opVars, step_error, toolVars>>

-----------------------------------------------------------------------------
(* Bounds of the model.                                                    *)

\* widest and tallest grid of a frame file
MaxW == 3
MaxH == 2
\* most boxes entries held by the frames of the sequence, all together
MaxBoxes == 2
\* most frames in the sequence
MaxFrames == 2
\* largest padding passed to the resolver
MaxPad == 1
\* most play_animation calls, and most frames drawn by the playback loops
MaxPlays == 2
MaxRenders == 4

\* self.grid_width = None: the code reads it only through "x or 0" and as the
\* default of frame.get, so None and 0 are the same value to it
NoGrid == 0
\* durations: the default of add_frame_from_json and of the loaders
DefaultDuration == 200

-----------------------------------------------------------------------------
(* Helpers: Python's max, min, dict.get.                                   *)

Max(a, b) == IF a >= b THEN a ELSE b
Min(a, b) == IF a <= b THEN a ELSE b
SetMin(S) == CHOOSE x \in S : \A y \in S : x <= y
SetMax(S) == CHOOSE x \in S : \A y \in S : x >= y

\* d.get(k, dflt)
Get(d, k, dflt) == IF k \in DOMAIN d THEN d[k] ELSE dflt

-----------------------------------------------------------------------------
(* Viewport resolver: compute_viewport.                                    *)

\* r, c = map(int, key.split(",")) succeeds exactly when the split yields two
\* integer fields; any other key raises and is skipped by the except clause
ParseOk(key) == Len(key) = 2

\* the keys whose entry is appended to xs, ys: parsed, and val != default_color
ContentKeys(boxes, dc) ==
    {key \in DOMAIN boxes : ParseOk(key) /\ boxes[key] # dc}

\* mode == 'half'
HalfViewport(gw, gh) ==
    LET w == Max(1, gw \div 2)
        h == Max(1, gh \div 2)
        x0 == Max(0, (gw - w) \div 2)
        y0 == Max(0, (gh - h) \div 2)
    IN  <<x0, y0, w, h>>

\* a variant of EmptyViewport that puts the viewport at the far corner of the
\* grid instead of its centre
EmptyViewport_Shifted(gw, gh, min_w, min_h) ==
    LET w == Min(gw, min_w)
        h == Min(gh, min_h)
        x0 == Max(0, gw - w)
        y0 == Max(0, gh - h)
    IN  <<x0, y0, w, h>>

\* "if not xs": nothing drawn, a centred minimal viewport
EmptyViewport(gw, gh, min_w, min_h) ==
    LET w == Min(gw, min_w)
        h == Min(gh, min_h)
        x0 == Max(0, (gw - w) \div 2)
        y0 == Max(0, (gh - h) \div 2)
    IN  <<x0, y0, w, h>>

\* a variant of BoxViewport that pads the bounding box without clamping its
\* origin to the grid
BoxViewport_NoPadClamp(min_x, max_x, min_y, max_y, gw, gh, padding, min_w, min_h) ==
    LET x0 == min_x - padding
        x1 == Min(gw - 1, max_x + padding)
        y0 == min_y - padding
        y1 == Min(gh - 1, max_y + padding)
    IN  <<x0, y0, x1 - x0 + 1, y1 - y0 + 1>>

\* padding, minimum size and final clamps around the bounding box
BoxViewport(min_x, max_x, min_y, max_y, gw, gh, padding, min_w, min_h) ==
    LET x0a == Max(0, min_x - padding)
        x1a == Min(gw - 1, max_x + padding)
        y0a == Max(0, min_y - padding)
        y1a == Min(gh - 1, max_y + padding)
        wa == x1a - x0a + 1
        ha == y1a - y0a + 1
        \* if w < min_w
        extraw == min_w - wa
        left == extraw \div 2
        right == extraw - left
        x0b == IF wa < min_w THEN Max(0, x0a - left) ELSE x0a
        x1b == IF wa < min_w THEN Min(gw - 1, x1a + right) ELSE x1a
        wb == IF wa < min_w THEN x1b - x0b + 1 ELSE wa
        \* if h < min_h
        extrah == min_h - ha
        top == extrah \div 2
        bottom == extrah - top
        y0b == IF ha < min_h THEN Max(0, y0a - top) ELSE y0a
        y1b == IF ha < min_h THEN Min(gh - 1, y1a + bottom) ELSE y1a
        hb == IF ha < min_h THEN y1b - y0b + 1 ELSE ha
        \* final clamps
        w == Min(wb, gw)
        h == Min(hb, gh)
        x0 == Max(0, Min(x0b, gw - w))
        y0 == Max(0, Min(y0b, gh - h))
    IN  <<x0, y0, w, h>>

\* the 'stick-figure' branch, which every mode other than 'full' and 'half' takes
StickFigureViewport(frame, gw, gh, padding, min_w, min_h) ==
    LET boxes == Get(frame, "boxes", <<>>)
        dc == Get(frame, "default_color", default_color)
        content == ContentKeys(boxes, dc)
        xs == {key[2] : key \in content}
        ys == {key[1] : key \in content}
    IN  IF xs = {}
        THEN EmptyViewport(gw, gh, min_w, min_h)
        ELSE BoxViewport(SetMin(xs), SetMax(xs), SetMin(ys), SetMax(ys),
                         gw, gh, padding, min_w, min_h)

\* a mode argument that is None or ''
NoMode == ""

compute_viewport(frame, mode_arg, padding, min_w, min_h) ==
    LET mode == IF mode_arg = NoMode THEN viewport_mode ELSE mode_arg
        gw == Get(frame, "grid_width", grid_width)
        gh == Get(frame, "grid_height", grid_height)
    IN  IF mode = "full" THEN <<0, 0, gw, gh>>
        ELSE IF mode = "half" THEN HalfViewport(gw, gh)
        ELSE StickFigureViewport(frame, gw, gh, padding, min_w, min_h)

-----------------------------------------------------------------------------
(* Viewport resolver: compute_global_viewport.                             *)

\* the loop over the frames: gw, gh follow the frames, the bounds accumulate;
\* found = FALSE stands for min_c is None
RECURSIVE GlobalScan(_, _, _)
GlobalScan(fs, i, acc) ==
    IF i > Len(fs) THEN acc
    ELSE
        LET frame == fs[i]
            gw == Get(frame, "grid_width", acc.gw)
            gh == Get(frame, "grid_height", acc.gh)
            boxes == Get(frame, "boxes", <<>>)
            dc == Get(frame, "default_color", default_color)
            content == ContentKeys(boxes, dc)
            xs == {key[2] : key \in content}
            ys == {key[1] : key \in content}
            dims == [acc EXCEPT !.gw = gw, !.gh = gh]
        IN  IF xs = {}
            THEN GlobalScan(fs, i + 1, dims)
            ELSE GlobalScan(fs, i + 1,
                   [dims EXCEPT
                      !.found = TRUE,
                      !.min_c = IF ~acc.found \/ SetMin(xs) < acc.min_c
                                THEN SetMin(xs) ELSE acc.min_c,
                      !.max_c = IF ~acc.found \/ SetMax(xs) > acc.max_c
                                THEN SetMax(xs) ELSE acc.max_c,
                      !.min_r = IF ~acc.found \/ SetMin(ys) < acc.min_r
                                THEN SetMin(ys) ELSE acc.min_r,
                      !.max_r = IF ~acc.found \/ SetMax(ys) > acc.max_r
                                THEN SetMax(ys) ELSE acc.max_r])

\* nothing found across all frames
GlobalEmptyViewport(gw, gh, min_w, min_h) ==
    LET w == IF gw # 0 THEN Min(gw, min_w) ELSE min_w
        h == IF gh # 0 THEN Min(gh, min_h) ELSE min_h
        x0 == IF gw # 0 THEN Max(0, (gw - w) \div 2) ELSE 0
        y0 == IF gh # 0 THEN Max(0, (gh - h) \div 2) ELSE 0
    IN  <<x0, y0, w, h>>

\* padding, minimums and clamps of the union
GlobalBoxViewport(min_c, max_c, min_r, max_r, gw, gh, padding, min_w, min_h) ==
    LET x0a == Max(0, min_c - padding)
        x1a == Min(gw - 1, max_c + padding)
        y0a == Max(0, min_r - padding)
        y1a == Min(gh - 1, max_r + padding)
        wa == x1a - x0a + 1
        ha == y1a - y0a + 1
        extraw == min_w - wa
        left == extraw \div 2
        right == extraw - left
        x0b == IF wa < min_w THEN Max(0, x0a - left) ELSE x0a
        x1b == IF wa < min_w THEN Min(gw - 1, x1a + right) ELSE x1a
        wb == IF wa < min_w THEN x1b - x0b + 1 ELSE wa
        extrah == min_h - ha
        top == extrah \div 2
        bottom == extrah - top
        y0b == IF ha < min_h THEN Max(0, y0a - top) ELSE y0a
        y1b == IF ha < min_h THEN Min(gh - 1, y1a + bottom) ELSE y1a
        hb == IF ha < min_h THEN y1b - y0b + 1 ELSE ha
        w == Min(wb, gw)
        h == Min(hb, gh)
        x0 == Max(0, Min(x0b, gw - w))
        y0 == Max(0, Min(y0b, gh - h))
    IN  <<x0, y0, w, h>>

\* frames_arg = << >> is "frames or self.frames" falling back to self.frames
compute_global_viewport(frames_arg, padding, min_w, min_h) ==
    LET fs == IF frames_arg = <<>> THEN frames ELSE frames_arg
    IN  IF fs = <<>>
        THEN <<0, 0, grid_width, grid_height>>
        ELSE
            LET gw0 == IF grid_width # NoGrid THEN grid_width
                       ELSE Get(fs[1], "grid_width", 0)
                gh0 == IF grid_height # NoGrid THEN grid_height
                       ELSE Get(fs[1], "grid_height", 0)
                acc == GlobalScan(fs, 1,
                         [gw |-> gw0, gh |-> gh0, found |-> FALSE,
                          min_c |-> 0, max_c |-> 0, min_r |-> 0, max_r |-> 0])
            IN  IF ~acc.found
                THEN GlobalEmptyViewport(acc.gw, acc.gh, min_w, min_h)
                ELSE GlobalBoxViewport(acc.min_c, acc.max_c, acc.min_r, acc.max_r,
                                       acc.gw, acc.gh, padding, min_w, min_h)

-----------------------------------------------------------------------------
(* Compositor: draw_frame_to_image and draw_frame_on_canvas.               *)
(* A string the code inspects character by character (a colour) is the     *)
(* list of its characters.  An image is seen cell by cell: the fill of the *)
(* last rectangle drawn over a cell of the viewport, as an (r, g, b)       *)
(* tuple; a canvas likewise, with Tk colour strings.                       *)

Black == <<0, 0, 0>>
White == <<255, 255, 255>>
\* frame.get('stick_figure_color', None) is None, and '' is as false as None
NoColor == <<>>

HexDigits == <<"0", "1", "2", "3", "4", "5", "6", "7",
               "8", "9", "a", "b", "c", "d", "e", "f">>
UpperCase == <<"A", "B", "C", "D", "E", "F", "K", "L">>
LowerCase == <<"a", "b", "c", "d", "e", "f", "k", "l">>

\* str.lower(), character by character
LowerChar(ch) ==
    IF \E i \in 1..Len(UpperCase) : UpperCase[i] = ch
    THEN LowerCase[CHOOSE i \in 1..Len(UpperCase) : UpperCase[i] = ch]
    ELSE ch
Lower(str) == [i \in 1..Len(str) |-> LowerChar(str[i])]

\* str.lstrip('#')
RECURSIVE LStripHash(_)
LStripHash(str) ==
    IF str # <<>> /\ Head(str) = "#" THEN LStripHash(Tail(str)) ELSE str

\* int(chunk, 16) of a chunk of hexadecimal digits
RECURSIVE HexInt(_)
HexInt(chunk) ==
    IF chunk = <<>> THEN 0
    ELSE LET last == LowerChar(chunk[Len(chunk)])
             digit == (CHOOSE i \in 1..16 : HexDigits[i] = last) - 1
         IN  16 * HexInt(SubSeq(chunk, 1, Len(chunk) - 1)) + digit

\* hex_to_rgb('#rrggbb'): the digits cut in chunks of len // 3
hex_to_rgb(hex_color) ==
    LET hex == LStripHash(hex_color)
        lv == Len(hex)
        n == lv \div 3
        count == (lv + n - 1) \div n
    IN  [k \in 1..count |->
            HexInt(SubSeq(hex, (k - 1) * n + 1, Min(lv, k * n)))]

\* the colour of a stored value: 'black' if val != 0 else 'white', and the
\* same again under "if default_color == 1"
LayerInk(val, dflt) ==
    LET color == IF val # 0 THEN "black" ELSE "white"
    IN  IF dflt = 1
        THEN (IF val = 0 THEN "white" ELSE "black")
        ELSE color

\* the colour of a background cell without entry
LayerFill(dflt) == IF dflt = 0 THEN "white" ELSE "black"

\* the (r, g, b) tuple draw_frame_to_image uses for 'black' and 'white'
Rgb(name) == IF name = "black" THEN Black ELSE White

\* "if background and 'boxes' in background": None and {} are false
BackgroundDrawn(background) ==
    background # <<>> /\ "boxes" \in DOMAIN background

\* the cells range(y0, y0 + h) x range(x0, x0 + w) of a viewport
ViewportCells(viewport) ==
    {<<row, col>> : row \in viewport[2]..(viewport[2] + viewport[4] - 1),
                    col \in viewport[1]..(viewport[1] + viewport[3] - 1)}

\* draw_frame_to_image: the colour a foreground entry is drawn in
ImageDrawColor(sf_color, color) ==
    IF sf_color # NoColor
    THEN IF Head(sf_color) = "#"
         THEN hex_to_rgb(sf_color)
         ELSE IF Lower(sf_color) = <<"b", "l", "a", "c", "k">>
              THEN Black ELSE White
    ELSE color

\* the image is created white, the background is drawn over it where one is
\* given, and the entries of the frame are drawn over both
draw_frame_to_image(frame, background, viewport) ==
    LET boxes == Get(frame, "boxes", <<>>)
        dflt == Get(frame, "default_color", 0)
        sf_color == Get(frame, "stick_figure_color", NoColor)
        bg_boxes == background["boxes"]
        bg_default == Get(background, "default_color", 0)
    IN  [cell \in ViewportCells(viewport) |->
            IF cell \in DOMAIN boxes
            THEN ImageDrawColor(sf_color, Rgb(LayerInk(boxes[cell], dflt)))
            ELSE IF BackgroundDrawn(background)
            THEN IF cell \in DOMAIN bg_boxes
                 THEN Rgb(LayerInk(bg_boxes[cell], bg_default))
                 ELSE Rgb(LayerFill(bg_default))
            ELSE White]

\* a cell of the canvas no rectangle was created over
NoRectangle == <<>>

\* the Tk colour strings 'black' and 'white'
TkColor(name) ==
    IF name = "black" THEN <<"b", "l", "a", "c", "k">>
    ELSE <<"w", "h", "i", "t", "e">>

\* draw_frame_on_canvas: canvas.delete("all"), then the same two passes with
\* Tk colours; a cell without background and without entry gets no rectangle
draw_frame_on_canvas(frame, background, viewport) ==
    LET boxes == Get(frame, "boxes", <<>>)
        dflt == Get(frame, "default_color", 0)
        sf_color == Get(frame, "stick_figure_color", NoColor)
        bg_boxes == background["boxes"]
        bg_default == Get(background, "default_color", 0)
    IN  [cell \in ViewportCells(viewport) |->
            IF cell \in DOMAIN boxes
            THEN IF sf_color # NoColor THEN sf_color
                 ELSE TkColor(LayerInk(boxes[cell], dflt))
            ELSE IF BackgroundDrawn(background)
            THEN IF cell \in DOMAIN bg_boxes
                 THEN TkColor(LayerInk(bg_boxes[cell], bg_default))
                 ELSE TkColor(LayerFill(bg_default))
            ELSE NoRectangle]

-----------------------------------------------------------------------------
(* The inputs: frame files, and the arguments of the resolver.             *)

\* a frame without a background: backgrounds holds None
NoBackground == <<>>

GridDims == {<<MaxW, MaxH>>, <<MaxW - 1, MaxH - 1>>}
CellValues == {0, 1}
Cells(gw, gh) == {<<r, c>> : r \in 0..(gh - 1), c \in 0..(gw - 1)}
BoxMaps(gw, gh, n) ==
    UNION {[K -> CellValues] : K \in {S \in SUBSET Cells(gw, gh) : Cardinality(S) <= n}}

\* the frame files with at most n boxes entries, all keys in-bounds
FrameDocs(n) ==
    UNION {{[grid_width |-> d[1], grid_height |-> d[2],
             default_color |-> dc, boxes |-> b] :
              dc \in CellValues, b \in BoxMaps(d[1], d[2], n)} : d \in GridDims}

RECURSIVE TotalBoxes(_)
TotalBoxes(fs) ==
    IF fs = <<>> THEN 0
    ELSE Cardinality(DOMAIN Get(Head(fs), "boxes", <<>>)) + TotalBoxes(Tail(fs))

Modes == {"full", "half", "stick-figure", "zoom", NoMode}
Paddings == 0..MaxPad
\* minimum sizes below, inside and beyond the grid
MinWidths == 1..(MaxW + 1)
MinHeights == 1..(MaxH + 1)

NoCall == [fn |-> "none", frames |-> <<>>, mode |-> NoMode,
           padding |-> 0, min_w |-> 1, min_h |-> 1]

\* no export, no file, no compositor call, no editing operation yet
NoExport == <<"no export">>
NoFile == <<"no file">>
NoDraw == [fn |-> "none"]
NoOp == [fn |-> "none"]

-----------------------------------------------------------------------------
(* Operations.                                                             *)

\* add_frame_from_json(path, duration, background_json=None) on a readable
\* frame file whose content is f: what it appends and updates
AppendFrame(f, duration) ==
    /\ frames' = Append(frames, f)
    /\ frame_names' = Append(frame_names, "frame.json")
    /\ timings' = Append(timings, duration)
    /\ backgrounds' = Append(backgrounds, NoBackground)
    /\ background_names' = Append(background_names, "")
    /\ grid_width' = Get(f, "grid_width", grid_width)
    /\ grid_height' = Get(f, "grid_height", grid_height)
    /\ default_color' = Get(f, "default_color", default_color)

add_frame_from_json(f, duration) ==
    /\ Len(frames) < MaxFrames
    /\ TotalBoxes(frames) + Cardinality(DOMAIN Get(f, "boxes", <<>>)) <= MaxBoxes
    /\ vp_call = NoCall
    /\ AppendFrame(f, duration)
    /\ UNCHANGED <<policyVars, vpVars, playVars>>
    /\ UNCHANGED extVars

\* a call compute_viewport(frames[i], mode, padding, min_w, min_h); the resolver
\* changes nothing, so one call per behaviour records what it returns
ComputeViewport(i, mode, padding, min_w, min_h) ==
    /\ vp_call = NoCall
    /\ i \in 1..Len(frames)
    /\ vp_call' = [fn |-> "compute_viewport", frames |-> <<frames[i]>>,
                   mode |-> mode, padding |-> padding,
                   min_w |-> min_w, min_h |-> min_h]
    /\ vp_result' = compute_viewport(frames[i], mode, padding, min_w, min_h)
    /\ UNCHANGED <<seqVars, policyVars, playVars>>
    /\ UNCHANGED extVars

\* a call compute_global_viewport(self.frames, padding, min_w, min_h)
ComputeGlobalViewport(padding, min_w, min_h) ==
    /\ vp_call = NoCall
    /\ vp_call' = [fn |-> "compute_global_viewport", frames |-> frames,
                   mode |-> NoMode, padding |-> padding,
                   min_w |-> min_w, min_h |-> min_h]
    /\ vp_result' = compute_global_viewport(frames, padding, min_w, min_h)
    /\ UNCHANGED <<seqVars, policyVars, playVars>>
    /\ UNCHANGED extVars

-----------------------------------------------------------------------------
(* run_animation_gui: the player of the editor window.                     *)

\* the i-th frame file of an animation played in the editor
PlayFrame(i) ==
    [grid_width |-> MaxW, grid_height |-> MaxH, default_color |-> 0,
     boxes |-> (<<0, (i - 1) % MaxW>> :> 1)]

\* the saved animations load_animation reads: n frames and m timings
AnimDocs ==
    {[frames |-> [i \in 1..n |-> PlayFrame(i)],
      timings |-> [i \in 1..m |-> DefaultDuration]] :
        n \in 0..MaxFrames, m \in 0..MaxFrames}

\* step(index) of the play numbered chain, run with running = (flag, loop):
\* the flag it leaves, the frames it draws and the callbacks it schedules.
\* frames[index] and timings[index] raise IndexError past the end of the list;
\* the exception ends the callback with nothing scheduled.
step(chain, index, flag, loop) ==
    IF ~flag
    THEN [flag |-> flag, draws |-> <<>>, after |-> {}, error |-> "none"]
    ELSE IF index >= Len(frames) /\ ~loop
    THEN [flag |-> FALSE, draws |-> <<>>, after |-> {}, error |-> "none"]
    ELSE
        LET idx == IF index >= Len(frames) THEN 0 ELSE index
        IN  IF idx >= Len(frames)
            THEN [flag |-> flag, draws |-> <<>>, after |-> {},
                  error |-> "IndexError"]
            ELSE IF idx >= Len(timings)
            THEN [flag |-> flag,
                  draws |-> <<[chain |-> chain, index |-> idx]>>,
                  after |-> {}, error |-> "IndexError"]
            ELSE [flag |-> flag,
                  draws |-> <<[chain |-> chain, index |-> idx]>>,
                  after |-> {[chain |-> chain, index |-> idx + 1]},
                  error |-> "none"]

\* the Start (loop = FALSE) and Replay (loop = TRUE) buttons.  Lines 801-805
\* copy the widgets of the viewport policy to the object: the widgets are
\* created with the values of the object (627-644) and set to them after a
\* load (764-768), and no action edits them, so the policy is unchanged.
play_animation(loop) ==
    /\ plays < MaxPlays
    /\ IF frames = <<>>
       THEN UNCHANGED <<playVars, step_error>>
       ELSE LET s == step(plays + 1, 0, TRUE, loop)
            IN  /\ Len(rendered) + Len(s.draws) <= MaxRenders
                /\ step_error' = s.error
                /\ running_flag' = s.flag
                /\ running_loop' = loop
                /\ rendered' = rendered \o s.draws
                /\ pending' = pending \cup s.after
                /\ plays' = plays + 1
                /\ clean' = (pending = {})
                /\ UNCHANGED stopped
    /\ UNCHANGED <<seqVars, policyVars, vpVars>>
    /\ UNCHANGED <<exportVars, saved, drawVars, opVars, toolVars>>

\* a root.after timer fires: the scheduled step(index) runs
StepCallback(cb) ==
    /\ cb \in pending
    /\ LET s == step(cb.chain, cb.index, running_flag, running_loop)
       IN  /\ Len(rendered) + Len(s.draws) <= MaxRenders
           /\ step_error' = s.error
           /\ running_flag' = s.flag
           /\ rendered' = rendered \o s.draws
           /\ pending' = (pending \ {cb}) \cup s.after
    /\ UNCHANGED <<running_loop, plays, stopped, clean>>
    /\ UNCHANGED <<seqVars, policyVars, vpVars>>
    /\ UNCHANGED <<exportVars, saved, drawVars, opVars, toolVars>>

\* the Stop button
stop_animation ==
    /\ running_flag' = FALSE
    /\ stopped' = stopped \cup {cb.chain : cb \in pending}
    /\ clean' = FALSE
    /\ UNCHANGED <<running_loop, pending, plays, rendered>>
    /\ UNCHANGED <<seqVars, policyVars, vpVars>>
    /\ UNCHANGED extVars

\* load_animation(filename) on a readable animation file whose content is doc,
\* a document with the key 'frames'.  Line 135 assigns self.frames, then
\* data["timings"] raises KeyError when the key is missing and the rest of the
\* object is left as it was.
load_animation(doc) ==
    IF "timings" \in DOMAIN doc
    THEN /\ frames' = doc["frames"]
         /\ timings' = doc["timings"]
         /\ backgrounds' = Get(doc, "backgrounds",
                               [i \in 1..Len(doc["frames"]) |-> NoBackground])
         /\ frame_names' = Get(doc, "frame_names",
                               [i \in 1..Len(doc["frames"]) |-> "Frame_N.json"])
         /\ background_names' = Get(doc, "background_names",
                                    [i \in 1..Len(doc["frames"]) |-> ""])
         /\ viewport_mode' = Get(doc, "viewport_mode", viewport_mode)
         /\ viewport_padding' = Get(doc, "viewport_padding", viewport_padding)
         /\ viewport_min_w' = Get(doc, "viewport_min_w", viewport_min_w)
         /\ viewport_min_h' = Get(doc, "viewport_min_h", viewport_min_h)
         /\ lock_viewport' = Get(doc, "lock_viewport", lock_viewport)
         /\ IF doc["frames"] # <<>>
            THEN /\ grid_width' = Get(doc["frames"][1], "grid_width", grid_width)
                 /\ grid_height' = Get(doc["frames"][1], "grid_height", grid_height)
                 /\ default_color' = Get(doc["frames"][1], "default_color", default_color)
            ELSE UNCHANGED <<grid_width, grid_height, default_color>>
    ELSE /\ frames' = doc["frames"]
         /\ UNCHANGED <<timings, backgrounds, frame_names, background_names,
                        grid_width, grid_height, default_color, policyVars>>

\* the Load Animation button of the editor
gui_load_animation(doc) ==
    /\ load_animation(doc)
    /\ clean' = FALSE
    /\ UNCHANGED <<running_flag, running_loop, pending, plays, rendered, stopped>>
    /\ UNCHANGED vpVars
    /\ UNCHANGED extVars

\* the Add Frame button of the editor: add_frame_from_json(path, 200, None)
add_frame(f) ==
    /\ Len(frames) < MaxFrames
    /\ AppendFrame(f, DefaultDuration)
    /\ clean' = FALSE
    /\ UNCHANGED <<running_flag, running_loop, pending, plays, rendered, stopped>>
    /\ UNCHANGED <<policyVars, vpVars>>
    /\ UNCHANGED extVars

-----------------------------------------------------------------------------
(* export_to_video.                                                        *)

\* the frames per second and the durations (ms) passed by callers; the code
\* accepts any integer duration
FpsValues == {1, 5, 8}
Durations == {-100, 0, 100, 200, 300, 400}

\* int(a / b) for b > 0: the quotient truncated towards zero
TruncDiv(a, b) == IF a >= 0 THEN a \div b ELSE -((-a) \div b)

\* repeats = max(1, int((fps * frame_duration) / 1000))
Repeats(fps, frame_duration) == Max(1, TruncDiv(fps * frame_duration, 1000))

\* the images appended for the frames of index i - 1 and above (line 458-465)
RECURSIVE ExportImages(_, _, _)
ExportImages(i, fps, global_viewport) ==
    IF i > Len(frames) THEN <<>>
    ELSE LET frame == frames[i]
             bg == IF i <= Len(backgrounds) THEN backgrounds[i] ELSE NoBackground
             viewport == IF lock_viewport THEN global_viewport
                         ELSE compute_viewport(frame, NoMode, viewport_padding,
                                               viewport_min_w, viewport_min_h)
             img == draw_frame_to_image(frame, bg, viewport)
         IN  [k \in 1..Repeats(fps, timings[i]) |-> [index |-> i - 1, img |-> img]]
             \o ExportImages(i + 1, fps, global_viewport)

\* export_to_video(filename, fps); self.timings[i] raises IndexError when
\* timings is shorter than frames, and nothing is written then
export_to_video(fps) ==
    /\ op_call = NoOp
    /\ op_call' = [fn |-> "export_to_video", fps |-> fps]
    /\ IF Len(timings) < Len(frames)
       THEN /\ op_result' = "IndexError"
            /\ UNCHANGED exportVars
       ELSE /\ op_result' = "True"
            /\ export_fps' = fps
            /\ images' = ExportImages(1, fps,
                   compute_global_viewport(frames, viewport_padding,
                                           viewport_min_w, viewport_min_h))
    /\ UNCHANGED <<seqVars, policyVars, vpVars, playVars, saved, drawVars, step_error, toolVars>>

vars == <<seqVars, policyVars, vpVars, playVars, extVars>>

\* StickFigureAnimation.__init__
InitSequencer ==
    /\ frames = <<>>
    /\ timings = <<>>
    /\ backgrounds = <<>>
    /\ frame_names = <<>>
    /\ background_names = <<>>
    /\ grid_width = NoGrid
    /\ grid_height = NoGrid
    /\ default_color = 0
    /\ viewport_mode = "full"
    /\ viewport_padding = 2
    /\ viewport_min_w = 16
    /\ viewport_min_h = 16
    /\ lock_viewport = TRUE

InitNoCall ==
    /\ vp_call = NoCall
    /\ vp_result = <<>>

\* nothing exported, saved, drawn or edited yet
InitOutputs ==
    /\ images = NoExport
    /\ export_fps = 0
    /\ saved = NoFile
    /\ draw_call = NoDraw
    /\ draw_result = <<>>
    /\ op_call = NoOp
    /\ op_result = "none"
    /\ step_error = "none"

\* no grid editor is open
NoGridCall == [fn |-> "none"]
NoStreak == [n |-> 0]
InitNoGrid ==
    /\ grid = <<>>
    /\ grid_default = 0
    /\ special_squares = <<>>
    /\ joint_vars = <<>>
    /\ grid_call = NoGridCall
    /\ grid_result = "none"
    /\ streak = NoStreak

\* the launcher is not running: no process, no request
NoProcess == 0
NoRequest == 0
InitNoServer ==
    /\ launched_process = NoProcess
    /\ launched_lock = NoRequest
    /\ alive = {}
    /\ spawned = 0
    /\ pc = <<>>

InitExt == InitOutputs /\ InitNoGrid /\ InitNoServer

\* run_animation_gui: running = {'flag': False, 'loop': False}, nothing scheduled
InitPlayer ==
    /\ running_flag = FALSE
    /\ running_loop = FALSE
    /\ pending = {}
    /\ plays = 0
    /\ rendered = <<>>
    /\ stopped = {}
    /\ clean = FALSE

-----------------------------------------------------------------------------
(* Animation files: save_animation, load_animation.                        *)

\* a background frame file
BackgroundDoc ==
    [grid_width |-> MaxW, grid_height |-> MaxH, default_color |-> 0,
     boxes |-> (<<0, 0>> :> 1)]

\* add_frame_from_json(path, duration, background_json) with a readable
\* background file whose content is bg (lines 73-77)
add_frame_with_background(f, duration, bg) ==
    /\ Len(frames) < MaxFrames
    /\ op_call = NoOp
    /\ frames' = Append(frames, f)
    /\ frame_names' = Append(frame_names, "frame.json")
    /\ timings' = Append(timings, duration)
    /\ backgrounds' = Append(backgrounds, bg)
    /\ background_names' = Append(background_names, "background.json")
    /\ grid_width' = Get(f, "grid_width", grid_width)
    /\ grid_height' = Get(f, "grid_height", grid_height)
    /\ default_color' = Get(f, "default_color", default_color)
    /\ UNCHANGED <<policyVars, vpVars, playVars, extVars>>

\* JSON null, which json.dump writes for None and json.load reads as None; the
\* other values of an animation (objects with string keys, lists, integers,
\* strings, booleans) are written and read back as they are
JsonNull == [json |-> "null"]
ToJson(value) == IF value = NoBackground THEN JsonNull ELSE value
FromJson(value) == IF value = JsonNull THEN NoBackground ELSE value

\* the dict animation_data of save_animation (lines 116-127)
animation_data ==
    [frames |-> frames,
     timings |-> timings,
     backgrounds |-> backgrounds,
     frame_names |-> frame_names,
     background_names |-> background_names,
     viewport_mode |-> viewport_mode,
     viewport_padding |-> viewport_padding,
     viewport_min_w |-> viewport_min_w,
     viewport_min_h |-> viewport_min_h,
     lock_viewport |-> lock_viewport]

\* a variant of json_dump that writes no background
json_dump_NoBackgrounds(data) ==
    [key \in DOMAIN data |->
        IF key = "backgrounds"
        THEN [i \in 1..Len(data[key]) |-> JsonNull]
        ELSE data[key]]

\* json.dump(animation_data, f): the document written
json_dump(data) ==
    [key \in DOMAIN data |->
        IF key = "backgrounds"
        THEN [i \in 1..Len(data[key]) |-> ToJson(data[key][i])]
        ELSE data[key]]

\* json.load(f) of a document
json_load(text) ==
    [key \in DOMAIN text |->
        IF key = "backgrounds"
        THEN [i \in 1..Len(text[key]) |-> FromJson(text[key][i])]
        ELSE text[key]]

\* the fields of the object a saved animation is compared with
ObjectFields ==
    [frames |-> frames, timings |-> timings, backgrounds |-> backgrounds,
     frame_names |-> frame_names,
     viewport_mode |-> viewport_mode, viewport_padding |-> viewport_padding,
     viewport_min_w |-> viewport_min_w, viewport_min_h |-> viewport_min_h,
     lock_viewport |-> lock_viewport]

\* the values of the viewport widgets of the editor (lines 627-645)
WidgetModes == {"full", "half", "stick-figure"}
WidgetPaddings == {0, 2}
WidgetMinSizes == {4, 16}

\* the Save Animation button: the widgets are copied to the object (lines
\* 750-754), then save_animation(filename) writes the file
gui_save_animation(mode, padding, min_w, min_h, lock) ==
    /\ op_call = NoOp
    /\ viewport_mode' = mode
    /\ viewport_padding' = padding
    /\ viewport_min_w' = min_w
    /\ viewport_min_h' = min_h
    /\ lock_viewport' = lock
    /\ UNCHANGED <<seqVars, vpVars, playVars, exportVars, drawVars, step_error, toolVars>>
    /\ saved' = json_dump(animation_data')
    /\ op_call' = [fn |-> "save_animation", self |-> ObjectFields']
    /\ op_result' = "None"

\* StickFigureAnimation(): a new object takes the place of the saved one
new_sequencer ==
    /\ op_call.fn = "save_animation"
    /\ frames' = <<>>
    /\ timings' = <<>>
    /\ backgrounds' = <<>>
    /\ frame_names' = <<>>
    /\ background_names' = <<>>
    /\ grid_width' = NoGrid
    /\ grid_height' = NoGrid
    /\ default_color' = 0
    /\ viewport_mode' = "full"
    /\ viewport_padding' = 2
    /\ viewport_min_w' = 16
    /\ viewport_min_h' = 16
    /\ lock_viewport' = TRUE
    /\ op_call' = [fn |-> "__init__", original |-> op_call.self]
    /\ op_result' = "None"
    /\ UNCHANGED <<vpVars, playVars, exportVars, saved, drawVars, step_error, toolVars>>

\* load_animation(filename) of the file written, by the new object
load_saved ==
    /\ op_call.fn = "__init__"
    /\ load_animation(json_load(saved))
    /\ op_call' = [fn |-> "load_animation", doc |-> json_load(saved),
                   round_trip |-> TRUE, original |-> op_call.original]
    /\ op_result' = "None"
    /\ UNCHANGED <<vpVars, playVars, exportVars, saved, drawVars, step_error, toolVars>>

\* the documents with the key 'frames' and with t timings, b backgrounds and
\* m frame names; a list of -1 elements stands for a missing key
LoadDoc(n, t, b, m) ==
    [key \in {"frames"} \cup (IF t >= 0 THEN {"timings"} ELSE {})
                        \cup (IF b >= 0 THEN {"backgrounds"} ELSE {})
                        \cup (IF m >= 0 THEN {"frame_names"} ELSE {}) |->
        CASE key = "frames" -> [i \in 1..n |-> PlayFrame(i)]
          [] key = "timings" -> [i \in 1..t |-> 100 * i]
          [] key = "backgrounds" -> [i \in 1..b |-> BackgroundDoc]
          [] key = "frame_names" -> [i \in 1..m |-> "frame.json"]]
LoadDocs ==
    {LoadDoc(n, t, b, m) : n \in 0..MaxFrames,
                           t \in -1..MaxFrames, b \in -1..MaxFrames,
                           m \in -1..MaxFrames}

\* load_animation(filename) of an animation file whose content is doc
load_file(doc) ==
    /\ op_call = NoOp
    /\ load_animation(doc)
    /\ op_call' = [fn |-> "load_animation", doc |-> doc, round_trip |-> FALSE]
    /\ op_result' = IF "timings" \in DOMAIN doc THEN "None" ELSE "KeyError"
    /\ UNCHANGED <<vpVars, playVars, exportVars, saved, drawVars, step_error, toolVars>>

-----------------------------------------------------------------------------
(* AnimationGUI (src/app/animationUtils/animationGUI.py): templates and    *)
(* the moves of painted cells.                                             *)

\* a template name without file in frame_templates/
NoTemplate == [missing |-> TRUE]

\* add_frame_from_template(template_name, duration) where the template file,
\* if there is one, holds the frame f: False without file, else
\* add_frame_from_json and True
add_frame_from_template(f, duration) ==
    IF f = NoTemplate
    THEN UNCHANGED vars
    ELSE add_frame_from_json(f, duration)

\* sel_r0 <= r <= sel_r1 and sel_c0 <= c <= sel_c1, sel = <<r0, c0, r1, c1>>
InSelection(key, sel) ==
    /\ sel[1] <= key[1] /\ key[1] <= sel[3]
    /\ sel[2] <= key[2] /\ key[2] <= sel[4]

\* "if nr < 0 or nc < 0 or nr >= grid_h or nc >= grid_w: continue"
OutOfBounds(nr, nc, grid_w, grid_h) ==
    nr < 0 \/ nc < 0 \/ nr >= grid_h \/ nc >= grid_w

\* dict.pop(key, None)
Pop(boxes, keys) == [k \in DOMAIN boxes \ keys |-> boxes[k]]

\* a variant of MoveSelectionBoxes that writes the moved cells before it
\* removes the old keys
MoveSelectionBoxes_WriteFirst(boxes, sel, dr, dc, grid_w, grid_h) ==
    LET keys_to_move == {key \in DOMAIN boxes : InSelection(key, sel)}
        dest == {key \in keys_to_move :
                    ~OutOfBounds(key[1] + dr, key[2] + dc, grid_w, grid_h)}
        new_boxes == [k \in {<<key[1] + dr, key[2] + dc>> : key \in dest} |->
                         boxes[<<k[1] - dr, k[2] - dc>>]]
    IN  Pop(new_boxes @@ boxes, keys_to_move)

\* move_selection, lines 145-171: the keys in the selection, their
\* destinations inside the grid, the old keys removed, the new ones written
MoveSelectionBoxes(boxes, sel, dr, dc, grid_w, grid_h) ==
    LET keys_to_move == {key \in DOMAIN boxes : InSelection(key, sel)}
        dest == {key \in keys_to_move :
                    ~OutOfBounds(key[1] + dr, key[2] + dc, grid_w, grid_h)}
        new_boxes == [k \in {<<key[1] + dr, key[2] + dc>> : key \in dest} |->
                         boxes[<<k[1] - dr, k[2] - dc>>]]
    IN  new_boxes @@ Pop(boxes, keys_to_move)

\* translate_object, lines 194-206: the loop over object_coords from position
\* i on, with the boxes and new_boxes reached so far
RECURSIVE TranslateLoop(_, _, _, _, _, _, _, _)
TranslateLoop(object_coords, i, boxes, new_boxes, dr, dc, grid_w, grid_h) ==
    IF i > Len(object_coords) THEN new_boxes @@ boxes
    ELSE LET key == object_coords[i]
             nr == key[1] + dr
             nc == key[2] + dc
         IN  IF key \notin DOMAIN boxes
             THEN TranslateLoop(object_coords, i + 1, boxes, new_boxes,
                                dr, dc, grid_w, grid_h)
             ELSE IF OutOfBounds(nr, nc, grid_w, grid_h)
             THEN TranslateLoop(object_coords, i + 1, Pop(boxes, {key}),
                                new_boxes, dr, dc, grid_w, grid_h)
             ELSE TranslateLoop(object_coords, i + 1, Pop(boxes, {key}),
                                (<<nr, nc>> :> boxes[key]) @@ new_boxes,
                                dr, dc, grid_w, grid_h)

\* frame['boxes'] = boxes; self.frames[frame_index] = frame
SetBoxes(frame_index, boxes) ==
    [frames EXCEPT ![frame_index + 1] = ("boxes" :> boxes) @@ frames[frame_index + 1]]

\* "if frame_index < 0 or frame_index >= len(self.frames)" and "if grid_w is
\* None or grid_h is None": the calls that return False
Unmovable(frame_index) ==
    \/ frame_index < 0
    \/ frame_index >= Len(frames)
    \/ "grid_width" \notin DOMAIN frames[frame_index + 1]
    \/ "grid_height" \notin DOMAIN frames[frame_index + 1]

\* move_selection reporting success for a frame that cannot be moved
move_selection_NoIndexCheck(frame_index, sel, dr, dc) ==
    /\ op_call = NoOp
    /\ op_call' = [fn |-> "move_selection", frame_index |-> frame_index,
                   sel |-> sel, coords |-> <<>>, dr |-> dr, dc |-> dc,
                   before |-> frames]
    /\ IF Unmovable(frame_index)
       THEN /\ op_result' = "True"
            /\ UNCHANGED frames
       ELSE LET frame == frames[frame_index + 1]
                boxes == Get(frame, "boxes", <<>>)
            IN  IF \E key \in DOMAIN boxes : ~ParseOk(key)
                THEN /\ op_result' = "ValueError"
                     /\ UNCHANGED frames
                ELSE /\ op_result' = "True"
                     /\ frames' = SetBoxes(frame_index,
                            MoveSelectionBoxes(boxes, sel, dr, dc,
                                frame["grid_width"], frame["grid_height"]))
    /\ UNCHANGED <<timings, backgrounds, frame_names, background_names,
                   grid_width, grid_height, default_color>>
    /\ UNCHANGED <<policyVars, vpVars, playVars, exportVars, saved, drawVars, step_error, toolVars>>

\* move_selection(frame_index, sel_r0, sel_c0, sel_r1, sel_c1, dr, dc);
\* _parse_key raises ValueError on a key that is not two fields, in the first
\* loop, before anything is changed
move_selection(frame_index, sel, dr, dc) ==
    /\ op_call = NoOp
    /\ op_call' = [fn |-> "move_selection", frame_index |-> frame_index,
                   sel |-> sel, coords |-> <<>>, dr |-> dr, dc |-> dc,
                   before |-> frames]
    /\ IF Unmovable(frame_index)
       THEN /\ op_result' = "False"
            /\ UNCHANGED frames
       ELSE LET frame == frames[frame_index + 1]
                boxes == Get(frame, "boxes", <<>>)
            IN  IF \E key \in DOMAIN boxes : ~ParseOk(key)
                THEN /\ op_result' = "ValueError"
                     /\ UNCHANGED frames
                ELSE /\ op_result' = "True"
                     /\ frames' = SetBoxes(frame_index,
                            MoveSelectionBoxes(boxes, sel, dr, dc,
                                frame["grid_width"], frame["grid_height"]))
    /\ UNCHANGED <<timings, backgrounds, frame_names, background_names,
                   grid_width, grid_height, default_color>>
    /\ UNCHANGED <<policyVars, vpVars, playVars, exportVars, saved, drawVars, step_error, toolVars>>

\* translate_object(frame_index, object_coords, dr, dc): the keys are made
\* from the coordinates, none is parsed
translate_object(frame_index, object_coords, dr, dc) ==
    /\ op_call = NoOp
    /\ op_call' = [fn |-> "translate_object", frame_index |-> frame_index,
                   sel |-> <<>>, coords |-> object_coords, dr |-> dr, dc |-> dc,
                   before |-> frames]
    /\ IF Unmovable(frame_index)
       THEN /\ op_result' = "False"
            /\ UNCHANGED frames
       ELSE LET frame == frames[frame_index + 1]
                boxes == Get(frame, "boxes", <<>>)
            IN  /\ op_result' = "True"
                /\ frames' = SetBoxes(frame_index,
                       TranslateLoop(object_coords, 1, boxes, <<>>, dr, dc,
                           frame["grid_width"], frame["grid_height"]))
    /\ UNCHANGED <<timings, backgrounds, frame_names, background_names,
                   grid_width, grid_height, default_color>>
    /\ UNCHANGED <<policyVars, vpVars, playVars, exportVars, saved, drawVars, step_error, toolVars>>

\* keys that are not 'row,col': "0" and "0,1,2", by their fields
MalformedKeys == {<<0>>, <<0, 1, 2>>}

\* frame files with one malformed key among their boxes
MalformedFrames ==
    {[f EXCEPT !.boxes = (key :> 1) @@ f.boxes] :
        f \in {g \in FrameDocs(MaxBoxes - 1) :
                  g.grid_width = MaxW /\ g.default_color = 0},
        key \in MalformedKeys}

\* the templates of frame_templates/
EditFrames == FrameDocs(MaxBoxes) \cup MalformedFrames

\* the selections, coordinate lists and offsets sent by the browser
Selections ==
    {<<r0, c0, r1, c1>> : r0 \in 0..(MaxH - 1), r1 \in 0..(MaxH - 1),
                          c0 \in 0..(MaxW - 1), c1 \in 0..(MaxW - 1)}
ObjectCells == {<<0, 0>>, <<0, 1>>, <<1, 1>>, <<0, MaxW - 1>>}
CoordLists ==
    {<<>>} \cup {<<a>> : a \in ObjectCells}
           \cup {<<a, b>> : a \in ObjectCells, b \in ObjectCells}
Offsets == {<<0, 1>>, <<1, 0>>, <<-1, -1>>}

-----------------------------------------------------------------------------
(* SpecViewport: the resolver on one frame.  The sequencer holds one frame *)
(* file, as after add_frame_from_json on a new object.                     *)

InitViewport ==
    /\ \E f \in FrameDocs(MaxBoxes) :
          /\ frames = <<f>>
          /\ grid_width = f.grid_width
          /\ grid_height = f.grid_height
          /\ default_color = f.default_color
    /\ timings = <<DefaultDuration>>
    /\ backgrounds = <<NoBackground>>
    /\ frame_names = <<"frame.json">>
    /\ background_names = <<"">>
    /\ viewport_mode = "full"
    /\ viewport_padding = 2
    /\ viewport_min_w = 16
    /\ viewport_min_h = 16
    /\ lock_viewport = TRUE
    /\ InitNoCall
    /\ InitPlayer
    /\ InitExt

\* compute_viewport(frame, mode): padding, min_w, min_h are None and default to
\* the policy of the object; a call with all arguments given
NextViewport ==
    \/ \E mode \in Modes :
          ComputeViewport(1, mode, viewport_padding, viewport_min_w, viewport_min_h)
    \/ \E mode \in {"stick-figure", "zoom"}, padding \in Paddings,
          min_w \in MinWidths, min_h \in MinHeights :
          ComputeViewport(1, mode, padding, min_w, min_h)
    \/ ComputeGlobalViewport(viewport_padding, viewport_min_w, viewport_min_h)
    \/ \E padding \in Paddings, min_w \in MinWidths, min_h \in MinHeights :
          ComputeGlobalViewport(padding, min_w, min_h)

SpecViewport == InitViewport /\ [][NextViewport]_vars

-----------------------------------------------------------------------------
(* SpecGlobal: the union resolver on a sequence built frame by frame.      *)

InitGlobal == InitSequencer /\ InitNoCall /\ InitPlayer /\ InitExt

NextGlobal ==
    \/ \E f \in FrameDocs(MaxBoxes) : add_frame_from_json(f, DefaultDuration)
    \/ ComputeGlobalViewport(viewport_padding, viewport_min_w, viewport_min_h)
    \/ \E padding \in Paddings, min_w \in MinWidths, min_h \in MinHeights :
          ComputeGlobalViewport(padding, min_w, min_h)

SpecGlobal == InitGlobal /\ [][NextGlobal]_vars

-----------------------------------------------------------------------------
(* SpecPlay: the editor window, its sequence and its player.               *)

InitPlay == InitSequencer /\ InitNoCall /\ InitPlayer /\ InitExt

NextPlay ==
    \/ \E loop \in BOOLEAN : play_animation(loop)
    \/ \E cb \in pending : StepCallback(cb)
    \/ stop_animation
    \/ \E doc \in AnimDocs : gui_load_animation(doc)
    \/ add_frame(PlayFrame(Len(frames) + 1))

SpecPlay == InitPlay /\ [][NextPlay]_vars

-----------------------------------------------------------------------------
(* SpecExport: a sequence built frame by frame with any duration, and its  *)
(* export.                                                                 *)

InitExport == InitSequencer /\ InitNoCall /\ InitPlayer /\ InitExt

NextExport ==
    \/ \E i \in 1..MaxFrames, duration \in Durations :
          op_call = NoOp /\ add_frame_from_json(PlayFrame(i), duration)
    \/ \E fps \in FpsValues : export_to_video(fps)

SpecExport == InitExport /\ [][NextExport]_vars

-----------------------------------------------------------------------------
(* SpecFile: a sequence built frame by frame, saved and loaded by a new     *)
(* object, and the loading of animation files of any shape.                *)

InitFile == InitSequencer /\ InitNoCall /\ InitPlayer /\ InitExt

NextFile ==
    \/ \E duration \in Durations :
          op_call = NoOp /\ add_frame_from_json(PlayFrame(Len(frames) + 1), duration)
    \/ \E duration \in Durations :
          add_frame_with_background(PlayFrame(Len(frames) + 1), duration, BackgroundDoc)
    \/ \E mode \in WidgetModes, padding \in WidgetPaddings,
          min_w \in WidgetMinSizes, lock \in BOOLEAN :
          gui_save_animation(mode, padding, min_w, 16, lock)
    \/ new_sequencer
    \/ load_saved
    \/ \E doc \in LoadDocs : load_file(doc)

SpecFile == InitFile /\ [][NextFile]_vars

-----------------------------------------------------------------------------
(* SpecEdit: the browser editor.  The sequencer holds one frame made from a *)
(* template; a second one can be added; cells are moved.                   *)

InitEdit ==
    /\ \E f \in EditFrames :
          /\ frames = <<f>>
          /\ grid_width = f.grid_width
          /\ grid_height = f.grid_height
          /\ default_color = f.default_color
    /\ timings = <<DefaultDuration>>
    /\ backgrounds = <<NoBackground>>
    /\ frame_names = <<"frame.json">>
    /\ background_names = <<"">>
    /\ viewport_mode = "full"
    /\ viewport_padding = 2
    /\ viewport_min_w = 16
    /\ viewport_min_h = 16
    /\ lock_viewport = TRUE
    /\ InitNoCall
    /\ InitPlayer
    /\ InitExt

NextEdit ==
    \/ \E f \in {NoTemplate, PlayFrame(2)} :
          op_call = NoOp /\ add_frame_from_template(f, DefaultDuration)
    \/ \E frame_index \in -1..MaxFrames, sel \in Selections, d \in Offsets :
          /\ frame_index <= Len(frames)
          /\ sel[1] <= sel[3] /\ sel[2] <= sel[4]
          /\ move_selection(frame_index, sel, d[1], d[2])
    \/ \E frame_index \in -1..MaxFrames, object_coords \in CoordLists, d \in Offsets :
          /\ frame_index <= Len(frames)
          /\ translate_object(frame_index, object_coords, d[1], d[2])
    \/ \E mode \in {"stick-figure"} :
          /\ op_call = NoOp
          /\ ComputeViewport(1, mode, 0, 1, 1)

SpecEdit == InitEdit /\ [][NextEdit]_vars

-----------------------------------------------------------------------------
(* SpecDraw: the compositor called on a frame, a background and a viewport. *)

\* the values a boxes entry of a frame file can hold: the two the editors
\* write, and one more integer
DrawValues == {0, 1, 2}

\* the stick_figure_color values: a hex colour, 'Black' and a colour name
StyleColors ==
    {<<"#", "f", "f", "0", "0", "0", "0">>,
     <<"B", "l", "a", "c", "k">>,
     <<"r", "e", "d">>}

DrawBoxMaps(n) ==
    UNION {[K -> DrawValues] :
              K \in {S \in SUBSET Cells(MaxW, MaxH) : Cardinality(S) <= n}}

\* the frames given to the compositor, without and with stick_figure_color
PlainDrawFrames ==
    {[grid_width |-> MaxW, grid_height |-> MaxH,
      default_color |-> dc, boxes |-> b] :
        dc \in CellValues, b \in DrawBoxMaps(MaxBoxes)}
StyledDrawFrames ==
    {[grid_width |-> f.grid_width, grid_height |-> f.grid_height,
      default_color |-> f.default_color, boxes |-> f.boxes,
      stick_figure_color |-> c] : f \in PlainDrawFrames, c \in StyleColors}
DrawFrames == PlainDrawFrames \cup StyledDrawFrames

\* the backgrounds: None, a background file, and a file without 'boxes'
DrawBackgrounds ==
    {NoBackground}
      \cup {[grid_width |-> MaxW, grid_height |-> MaxH,
             default_color |-> dc, boxes |-> b] :
               dc \in CellValues, b \in DrawBoxMaps(MaxBoxes - 1)}
      \cup {[grid_width |-> MaxW, grid_height |-> MaxH,
             default_color |-> dc] : dc \in CellValues}

\* the whole grid, and a window inside it
DrawViewports == {<<0, 0, MaxW, MaxH>>, <<1, 1, MaxW - 1, MaxH - 1>>}

DrawFrameToImage(frame, background, viewport) ==
    /\ draw_call = NoDraw
    /\ draw_call' = [fn |-> "draw_frame_to_image", frame |-> frame,
                     background |-> background, viewport |-> viewport]
    /\ draw_result' = draw_frame_to_image(frame, background, viewport)
    /\ UNCHANGED <<seqVars, policyVars, vpVars, playVars, exportVars, saved, opVars, step_error, toolVars>>

DrawFrameOnCanvas(frame, background, viewport) ==
    /\ draw_call = NoDraw
    /\ draw_call' = [fn |-> "draw_frame_on_canvas", frame |-> frame,
                     background |-> background, viewport |-> viewport]
    /\ draw_result' = draw_frame_on_canvas(frame, background, viewport)
    /\ UNCHANGED <<seqVars, policyVars, vpVars, playVars, exportVars, saved, opVars, step_error, toolVars>>

InitDraw == InitSequencer /\ InitNoCall /\ InitPlayer /\ InitExt

NextDraw ==
    \/ /\ draw_call = NoDraw
       /\ \E frame \in DrawFrames, background \in DrawBackgrounds,
             viewport \in DrawViewports :
             DrawFrameToImage(frame, background, viewport)
    \/ /\ draw_call = NoDraw
       /\ \E frame \in DrawFrames, background \in DrawBackgrounds,
             viewport \in DrawViewports :
             DrawFrameOnCanvas(frame, background, viewport)

SpecDraw == InitDraw /\ [][NextDraw]_vars

-----------------------------------------------------------------------------
(* SpecLoad: frames added from files that can be read or not.              *)

\* a path on which open() or json.load() raises: no file, or no JSON in it
BadFile == [unreadable |-> TRUE]

FrameFiles == {PlayFrame(1), PlayFrame(2), BadFile}
\* background_json: None, a background file, a path that cannot be read
BackgroundFiles == {NoBackground, BackgroundDoc, BadFile}
LoadDurations == {100, DefaultDuration}

\* the five lists of the sequence
Lists == <<frames, timings, backgrounds, frame_names, background_names>>

\* the sequence as a record, with the exception raised so far
Sequence ==
    [frames |-> frames, timings |-> timings, backgrounds |-> backgrounds,
     frame_names |-> frame_names, background_names |-> background_names,
     grid_width |-> grid_width, grid_height |-> grid_height,
     default_color |-> default_color, raised |-> FALSE]

SetSequence(st) ==
    /\ frames' = st.frames
    /\ timings' = st.timings
    /\ backgrounds' = st.backgrounds
    /\ frame_names' = st.frame_names
    /\ background_names' = st.background_names
    /\ grid_width' = st.grid_width
    /\ grid_height' = st.grid_height
    /\ default_color' = st.default_color

GridMetadata(st, frame_data) ==
    [st EXCEPT !.grid_width = Get(frame_data, "grid_width", @),
               !.grid_height = Get(frame_data, "grid_height", @),
               !.default_color = Get(frame_data, "default_color", @)]

\* add_frame_from_json(stick_figure_json, duration, background_json),
\* statement by statement: the frame file is read, frames, frame_names and
\* timings are appended, then the background file is read
AddFrameSteps(st, frame_file, duration, background_json) ==
    IF frame_file = BadFile
    THEN [st EXCEPT !.raised = TRUE]
    ELSE LET s1 == [st EXCEPT !.frames = Append(@, frame_file),
                              !.frame_names = Append(@, "frame.json"),
                              !.timings = Append(@, duration)]
         IN  IF background_json = NoBackground
             THEN GridMetadata([s1 EXCEPT !.backgrounds = Append(@, NoBackground),
                                          !.background_names = Append(@, "")],
                               frame_file)
             ELSE IF background_json = BadFile
             THEN [s1 EXCEPT !.raised = TRUE]
             ELSE GridMetadata([s1 EXCEPT !.backgrounds = Append(@, background_json),
                                          !.background_names = Append(@, "background.json")],
                               frame_file)

AddFrameFromJson(frame_file, duration, background_json) ==
    LET st == AddFrameSteps(Sequence, frame_file, duration, background_json)
    IN  /\ Len(frames) < MaxFrames
        /\ op_call' = [fn |-> "add_frame_from_json", before |-> Lists]
        /\ op_result' = IF st.raised THEN "raised" ELSE "None"
        /\ SetSequence(st)
        /\ UNCHANGED <<policyVars, vpVars, playVars, exportVars, saved, drawVars, step_error, toolVars>>

\* add_frame_from_template(template_name, duration, background_json): False
\* without template file, else add_frame_from_json inside try, False on any
\* exception
AddFrameFromTemplate(frame_file, duration, background_json) ==
    LET st == AddFrameSteps(Sequence, frame_file, duration, background_json)
    IN  /\ Len(frames) < MaxFrames
        /\ op_call' = [fn |-> "add_frame_from_template", before |-> Lists]
        /\ IF frame_file = NoTemplate
           THEN op_result' = "False" /\ UNCHANGED seqVars
           ELSE /\ op_result' = IF st.raised THEN "False" ELSE "True"
                /\ SetSequence(st)
        /\ UNCHANGED <<policyVars, vpVars, playVars, exportVars, saved, drawVars, step_error, toolVars>>

\* the loop of load_animation_from_jsons from the i-th file on
RECURSIVE LoadSteps(_, _, _, _, _)
LoadSteps(st, i, json_files, timings_arg, background_jsons) ==
    IF i > Len(json_files) THEN st
    ELSE IF json_files[i] = BadFile THEN [st EXCEPT !.raised = TRUE]
    ELSE LET frame_data == json_files[i]
             s1 == GridMetadata([st EXCEPT !.frames = Append(@, frame_data),
                                           !.frame_names = Append(@, "frame.json")],
                                frame_data)
             s2 == [s1 EXCEPT !.timings =
                        Append(@, IF i <= Len(timings_arg)
                                  THEN timings_arg[i] ELSE DefaultDuration)]
             given == i <= Len(background_jsons)
                        /\ background_jsons[i] # NoBackground
         IN  IF ~given
             THEN LoadSteps([s2 EXCEPT !.backgrounds = Append(@, NoBackground),
                                       !.background_names = Append(@, "")],
                            i + 1, json_files, timings_arg, background_jsons)
             ELSE IF background_jsons[i] = BadFile
             THEN [s2 EXCEPT !.raised = TRUE]
             ELSE LoadSteps([s2 EXCEPT !.backgrounds = Append(@, background_jsons[i]),
                                       !.background_names = Append(@, "background.json")],
                            i + 1, json_files, timings_arg, background_jsons)

\* load_animation_from_jsons(json_files, timings, background_jsons): the lists
\* are emptied first; None and [] are the empty list for both optional
\* arguments
LoadAnimationFromJsons(json_files, timings_arg, background_jsons) ==
    LET cleared == [Sequence EXCEPT !.frames = <<>>, !.timings = <<>>,
                                    !.backgrounds = <<>>, !.frame_names = <<>>,
                                    !.background_names = <<>>]
        st == LoadSteps(cleared, 1, json_files, timings_arg, background_jsons)
    IN  /\ op_call' = [fn |-> "load_animation_from_jsons", before |-> Lists]
        /\ op_result' = IF st.raised THEN "raised" ELSE "None"
        /\ SetSequence(st)
        /\ UNCHANGED <<policyVars, vpVars, playVars, exportVars, saved, drawVars, step_error, toolVars>>

\* the sequences of at most MaxFrames elements of a set
UpToMaxFrames(S) == UNION {[1..n -> S] : n \in 0..MaxFrames}

InitLoad == InitSequencer /\ InitNoCall /\ InitPlayer /\ InitExt

NextLoad ==
    \/ \E frame_file \in FrameFiles, duration \in LoadDurations,
          background_json \in BackgroundFiles :
          AddFrameFromJson(frame_file, duration, background_json)
    \/ \E frame_file \in FrameFiles \cup {NoTemplate}, duration \in LoadDurations,
          background_json \in BackgroundFiles :
          AddFrameFromTemplate(frame_file, duration, background_json)
    \/ \E json_files \in UpToMaxFrames({PlayFrame(1), BadFile}),
          timings_arg \in UpToMaxFrames({100}),
          background_jsons \in UpToMaxFrames(BackgroundFiles) :
          LoadAnimationFromJsons(json_files, timings_arg, background_jsons)

SpecLoad == InitLoad /\ [][NextLoad]_vars

-----------------------------------------------------------------------------
(* InteractiveGrid: draw_line and draw_circle (src/interactivegrid.py).     *)

\* InteractiveGrid(root, grid_width, grid_height, cell_size, default_color)
GridCols == 8
GridRows == 7
MaxRadius == 3

GridCells == {<<row, col>> : row \in 0..(GridRows - 1), col \in 0..(GridCols - 1)}

\* self.grid = [[self.default_color for _ in range(grid_width)] ...]
NewGrid(dflt) == [cell \in GridCells |-> dflt]

\* check_cordinates(x, y)
check_cordinates(x, y) == 0 <= x /\ x < GridCols /\ 0 <= y /\ y < GridRows

Abs(a) == IF a < 0 THEN -a ELSE a

\* the assignment without the check of check_cordinates: a negative index
\* counts from the end of the list, as Python does
SetCell_Wrapping(g, x, y, color) ==
    [g EXCEPT ![<<y % GridRows, x % GridCols>>] = color]

\* if self.check_cordinates(x, y): self.grid[y][x] = color
SetCell(g, x, y, color) ==
    IF check_cordinates(x, y) THEN [g EXCEPT ![<<y, x>>] = color] ELSE g

\* the loop "while x != x1" of draw_line.  err is dx / 2.0 in the code, a
\* multiple of one half; err2 is twice err, so that "err -= dy",
\* "if err < 0" and "err += dx" are exact on integers.
RECURSIVE LineLoopX(_, _, _, _, _, _, _, _, _, _)
LineLoopX(g, x, y, err2, x1, dx, dy, sx, sy, color) ==
    IF x = x1 THEN SetCell(g, x, y, color)
    ELSE LET e == err2 - 2 * dy
         IN  LineLoopX(SetCell(g, x, y, color), x + sx,
                       IF e < 0 THEN y + sy ELSE y,
                       IF e < 0 THEN e + 2 * dx ELSE e,
                       x1, dx, dy, sx, sy, color)

\* the loop "while y != y1" of draw_line
RECURSIVE LineLoopY(_, _, _, _, _, _, _, _, _, _)
LineLoopY(g, x, y, err2, y1, dx, dy, sx, sy, color) ==
    IF y = y1 THEN SetCell(g, x, y, color)
    ELSE LET e == err2 - 2 * dx
         IN  LineLoopY(SetCell(g, x, y, color),
                       IF e < 0 THEN x + sx ELSE x, y + sy,
                       IF e < 0 THEN e + 2 * dy ELSE e,
                       y1, dx, dy, sx, sy, color)

\* draw_line with the major axis taken the other way round
LineCells_MinorAxis(g, x0, y0, x1, y1, color) ==
    LET dx == Abs(x1 - x0)
        dy == Abs(y1 - y0)
        sx == IF x0 < x1 THEN 1 ELSE -1
        sy == IF y0 < y1 THEN 1 ELSE -1
    IN  IF dx < dy
        THEN LineLoopX(g, x0, y0, dx, x1, dx, dy, sx, sy, color)
        ELSE LineLoopY(g, x0, y0, dy, y1, dx, dy, sx, sy, color)

\* draw_line(x0, y0, x1, y1, color) on valid endpoints: the grid afterwards
LineCells(g, x0, y0, x1, y1, color) ==
    LET dx == Abs(x1 - x0)
        dy == Abs(y1 - y0)
        sx == IF x0 < x1 THEN 1 ELSE -1
        sy == IF y0 < y1 THEN 1 ELSE -1
    IN  IF dx > dy
        THEN LineLoopX(g, x0, y0, dx, x1, dx, dy, sx, sy, color)
        ELSE LineLoopY(g, x0, y0, dy, y1, dx, dy, sx, sy, color)

\* circle_points with the octant (cx - y, cy + x) left out
circle_points_SevenOctants(cx, cy, x, y) ==
    <<<<cx + x, cy + y>>, <<cx + y, cy + x>>, <<cx - x, cy + y>>,
      <<cx - x, cy - y>>, <<cx - y, cy - x>>, <<cx + y, cy - x>>, <<cx + x, cy - y>>>>

\* the eight circle_points of one turn of the loop of draw_circle
circle_points(cx, cy, x, y) ==
    <<<<cx + x, cy + y>>, <<cx + y, cy + x>>, <<cx - y, cy + x>>, <<cx - x, cy + y>>,
      <<cx - x, cy - y>>, <<cx - y, cy - x>>, <<cx + y, cy - x>>, <<cx + x, cy - y>>>>

\* for px, py in circle_points: if self.check_cordinates(px, py): ...
RECURSIVE SetCells(_, _, _, _)
SetCells(g, points, i, color) ==
    IF i > Len(points) THEN g
    ELSE SetCells(SetCell(g, points[i][1], points[i][2], color), points, i + 1, color)

\* the loop "while x >= y" of draw_circle
RECURSIVE CircleLoop(_, _, _, _, _, _, _)
CircleLoop(g, x, y, d, cx, cy, color) ==
    IF x < y THEN g
    ELSE LET g1 == SetCells(g, circle_points(cx, cy, x, y), 1, color)
         IN  IF d <= 0
             THEN CircleLoop(g1, x, y + 1, d + 2 * (y + 1) + 1, cx, cy, color)
             ELSE CircleLoop(g1, x - 1, y + 1, d + 2 * ((y + 1) - (x - 1)) + 1,
                             cx, cy, color)

\* InteractiveGrid.__init__
NewInteractiveGrid(dflt) ==
    /\ grid = NewGrid(dflt)
    /\ grid_default = dflt
    /\ special_squares = <<>>
    /\ joint_vars = <<>>
    /\ grid_call = NoGridCall
    /\ grid_result = "none"
    /\ streak = NoStreak

draw_line(x0, y0, x1, y1, color) ==
    /\ grid_call = NoGridCall
    /\ grid_call' = [fn |-> "draw_line", x0 |-> x0, y0 |-> y0, x1 |-> x1,
                     y1 |-> y1, color |-> color, before |-> grid]
    /\ IF check_cordinates(x0, y0) /\ check_cordinates(x1, y1)
       THEN /\ grid' = LineCells(grid, x0, y0, x1, y1, color)
            /\ grid_result' = "None"
       ELSE /\ grid_result' = "coordinates are not valid"
            /\ UNCHANGED grid
    /\ UNCHANGED <<grid_default, special_squares, joint_vars, streak>>
    /\ UNCHANGED <<seqVars, policyVars, vpVars, playVars, exportVars, saved,
                   drawVars, opVars, step_error, srvVars>>

draw_circle(cx, cy, radius, color) ==
    /\ grid_call = NoGridCall
    /\ grid_call' = [fn |-> "draw_circle", cx |-> cx, cy |-> cy,
                     radius |-> radius, color |-> color, before |-> grid]
    /\ IF radius < 1
       THEN /\ grid_result' = "ValueError"
            /\ UNCHANGED grid
       ELSE /\ grid' = CircleLoop(grid, radius, 0, 1 - radius, cx, cy, color)
            /\ grid_result' = "None"
    /\ UNCHANGED <<grid_default, special_squares, joint_vars, streak>>
    /\ UNCHANGED <<seqVars, policyVars, vpVars, playVars, exportVars, saved,
                   drawVars, opVars, step_error, srvVars>>

\* the coordinates given to the primitives: the grid and one cell around it
XCoords == (-1)..GridCols
YCoords == (-1)..GridRows
Radii == (-1)..MaxRadius

InitGrid ==
    /\ InitSequencer /\ InitNoCall /\ InitPlayer /\ InitOutputs /\ InitNoServer
    /\ \E dflt \in CellValues : NewInteractiveGrid(dflt)

NextGrid ==
    \/ /\ grid_call = NoGridCall
       /\ \E x0 \in XCoords, y0 \in YCoords, x1 \in XCoords, y1 \in YCoords :
             draw_line(x0, y0, x1, y1, 1 - grid_default)
    \/ /\ grid_call = NoGridCall
       /\ \E cx \in XCoords, cy \in YCoords, radius \in Radii, color \in CellValues :
             draw_circle(cx, cy, radius, color)

SpecGrid == InitGrid /\ [][NextGrid]_vars

-----------------------------------------------------------------------------
(* SetStickFigure: the stick-figure editor (src/setstickfigure.py).         *)

joint_names ==
    <<"head_c", "neck", "shoulder", "l_shoulder", "r_shoulder",
      "hip", "l_hip", "r_hip",
      "l_elbow", "r_elbow", "l_hand", "r_hand",
      "l_knee", "r_knee", "l_foot", "r_foot">>
\* self.max_joints = len(self.joint_names)
max_joints == 16

\* a dict with one more entry
Put(d, k, v) == [x \in DOMAIN d \cup {k} |-> IF x = k THEN v ELSE d[x]]

\* the k-th cell of the grid, row by row, k from 1
NthCell(k) == <<(k - 1) \div GridCols, (k - 1) % GridCols>>

\* a saved stick figure with k joints: its boxes are the joint cells, in the
\* contrast colour of the default
StickTemplate(k, dflt) ==
    [default_color |-> dflt,
     joints |-> [name \in {joint_names[i] : i \in 1..k} |->
                    NthCell(CHOOSE i \in 1..k : joint_names[i] = name)],
     boxes |-> [cell \in {NthCell(i) : i \in 1..k} |-> 1 - dflt]]

\* apply_template: the grid is cleared, the joints are read, the boxes are
\* written, red where a joint is
TemplateGrid(template, dflt) ==
    [cell \in GridCells |->
        IF cell \in DOMAIN template.boxes THEN template.boxes[cell] ELSE dflt]
TemplateSquares(template) ==
    [cell \in DOMAIN template.boxes |->
        IF \E name \in DOMAIN template.joints : template.joints[name] = cell
        THEN 1 ELSE 0]

\* SetStickFigure(root, default_color=dflt, stick_figure_template=template)
NewSetStickFigure(template, dflt) ==
    /\ grid = TemplateGrid(template, dflt)
    /\ grid_default = dflt
    /\ special_squares = TemplateSquares(template)
    /\ joint_vars = template.joints
    /\ grid_call = NoGridCall
    /\ grid_result = "none"
    /\ streak = NoStreak

\* draw_grid: what a cell shows, 2 for red, 1 for the contrast colour, 0 for
\* the default colour
Shown(key) ==
    IF Get(special_squares, key, 0) = 1 THEN 2
    ELSE IF grid[key] = grid_default THEN 0
    ELSE 1

\* current_state computed from the grid alone
current_state_GridOnly(key) ==
    IF grid[key] # grid_default THEN 1 ELSE 0

\* on_click: current_state of the clicked cell
current_state(key) ==
    IF Get(special_squares, key, 0) = 1 THEN 2
    ELSE IF grid[key] # grid_default THEN 1
    ELSE 0

\* assign_joint_variable(key) when the dialog returns name: None when it is
\* cancelled, when the name is no joint name, when the name is assigned
NoName == "None"
assign_joint_variable(name) ==
    IF name = NoName THEN NoName
    ELSE IF ~\E i \in 1..Len(joint_names) : joint_names[i] = name THEN NoName
    ELSE IF name \in DOMAIN joint_vars THEN NoName
    ELSE name

\* the clicks made in a row on one cell, with the state the cell had before
\* the first of them and whether one of them was refused
Streak(key, refused) ==
    IF streak.n > 0 /\ streak.cell = key
    THEN [n |-> streak.n + 1, cell |-> key, start |-> streak.start,
          refused |-> streak.refused \/ refused]
    ELSE [n |-> 1, cell |-> key, start |-> Shown(key), refused |-> refused]

MaxClicks == 5
Clicks == IF grid_call = NoGridCall THEN 0 ELSE grid_call.clicks

\* on_click(event) on the cell (row, col), the joint dialog answering name
on_click(row, col, name) ==
    LET key == <<row, col>>
        reds == {k \in DOMAIN special_squares : special_squares[k] = 1}
        joint == assign_joint_variable(name)
    IN  /\ Clicks < MaxClicks
        /\ IF ~(0 <= row /\ row < GridRows /\ 0 <= col /\ col < GridCols)
           THEN /\ grid_call' = [fn |-> "on_click", key |-> key, state |-> 0,
                                 refused |-> FALSE, clicks |-> Clicks + 1]
                /\ streak' = NoStreak
                /\ UNCHANGED <<grid, special_squares, joint_vars>>
           ELSE /\ grid_call' = [fn |-> "on_click", key |-> key,
                                 state |-> current_state(key),
                                 refused |-> (current_state(key) = 1
                                              /\ Cardinality(reds) >= max_joints),
                                 clicks |-> Clicks + 1]
                /\ streak' = Streak(key, current_state(key) = 1
                                         /\ Cardinality(reds) >= max_joints)
                /\ IF current_state(key) = 0
                   THEN /\ grid' = [grid EXCEPT ![key] =
                                       IF grid_default = 0 THEN 1 ELSE 0]
                        /\ special_squares' = Put(special_squares, key, 0)
                        /\ UNCHANGED joint_vars
                   ELSE IF current_state(key) = 1
                   THEN IF Cardinality(reds) >= max_joints
                        THEN UNCHANGED <<grid, special_squares, joint_vars>>
                        ELSE /\ special_squares' = Put(special_squares, key, 1)
                             /\ joint_vars' = IF joint # NoName
                                              THEN Put(joint_vars, joint, key)
                                              ELSE joint_vars
                             /\ UNCHANGED grid
                   ELSE /\ special_squares' = Put(special_squares, key, 0)
                        /\ grid' = [grid EXCEPT ![key] = grid_default]
                        /\ joint_vars' = [var \in {v \in DOMAIN joint_vars :
                                                      joint_vars[v] # key} |->
                                             joint_vars[var]]
        /\ grid_result' = "None"
        /\ UNCHANGED grid_default
        /\ UNCHANGED <<seqVars, policyVars, vpVars, playVars, exportVars, saved,
                       drawVars, opVars, step_error, srvVars>>

\* the templates the editor is opened with: no joint, all joints but one,
\* all joints
TemplateJoints == {0, max_joints - 1, max_joints}
\* the cells clicked: a joint cell of the templates, two cells they leave
\* blank, and a place outside the grid
ClickCells == {NthCell(1), NthCell(max_joints + 1), NthCell(max_joints + 2),
               <<GridRows, 0>>}
\* what the joint dialog returns: cancelled, two joint names, another word
NameInputs == {NoName, "l_foot", "r_foot", "foot"}

InitClick ==
    /\ InitSequencer /\ InitNoCall /\ InitPlayer /\ InitOutputs /\ InitNoServer
    /\ \E k \in TemplateJoints, dflt \in CellValues :
          NewSetStickFigure(StickTemplate(k, dflt), dflt)

NextClick ==
    \E key \in ClickCells, name \in NameInputs : on_click(key[1], key[2], name)

SpecClick == InitClick /\ [][NextClick]_vars

-----------------------------------------------------------------------------
(* The launcher: /launch and /status of src/main.py, the same handlers in   *)
(* src/app/flask_app.py.  Every request runs in its own thread; a step is   *)
(* one statement of a handler.                                             *)

MaxRequests == 3
MaxSpawns == 2
Requests == 1..MaxRequests

\* "with _launched_lock:" is left, by a return inside it or at its end
Leave(r, outcome) ==
    /\ launched_lock' = NoRequest
    /\ pc' = [pc EXCEPT ![r] = outcome]

\* a request arrives
Arrive(r, route) ==
    /\ pc[r] = "none"
    /\ pc' = [pc EXCEPT ![r] = route]
    /\ UNCHANGED <<launched_process, launched_lock, alive, spawned>>

\* "with _launched_lock:" entered without waiting for the lock
AcquireLock_NoWait(r, route, next) ==
    /\ pc[r] = route
    /\ launched_lock' = r
    /\ pc' = [pc EXCEPT ![r] = next]
    /\ UNCHANGED <<launched_process, alive, spawned>>

\* "with _launched_lock:" entered: the thread waits until the lock is free
AcquireLock(r, route, next) ==
    /\ pc[r] = route
    /\ launched_lock = NoRequest
    /\ launched_lock' = r
    /\ pc' = [pc EXCEPT ![r] = next]
    /\ UNCHANGED <<launched_process, alive, spawned>>

\* _launched_process is not None and _launched_process.poll() is None
Running == launched_process # NoProcess /\ launched_process \in alive

\* launch_gui: if a process was launched and is still running, redirect
launch_check(r) ==
    /\ pc[r] = "launch: check"
    /\ IF Running
       THEN Leave(r, "launch: already running")
       ELSE pc' = [pc EXCEPT ![r] = "launch: exists"] /\ UNCHANGED launched_lock
    /\ UNCHANGED <<launched_process, alive, spawned>>

\* if not os.path.exists(SCRIPT_PATH): return ..., 500
launch_exists(r, exists) ==
    /\ pc[r] = "launch: exists"
    /\ IF exists
       THEN pc' = [pc EXCEPT ![r] = "launch: Popen"] /\ UNCHANGED launched_lock
       ELSE Leave(r, "launch: not found")
    /\ UNCHANGED <<launched_process, alive, spawned>>

\* _launched_process = subprocess.Popen(...), or the exception it raises
launch_popen(r, started) ==
    /\ pc[r] = "launch: Popen"
    /\ IF started
       THEN /\ spawned < MaxSpawns
            /\ spawned' = spawned + 1
            /\ launched_process' = spawned + 1
            /\ alive' = alive \cup {spawned + 1}
            /\ pc' = [pc EXCEPT ![r] = "launch: end of with"]
            /\ UNCHANGED launched_lock
       ELSE /\ Leave(r, "launch: failed")
            /\ UNCHANGED <<launched_process, alive, spawned>>

\* the end of the with block, then redirect(url_for('status'))
launch_end(r) ==
    /\ pc[r] = "launch: end of with"
    /\ Leave(r, "launch: started")
    /\ UNCHANGED <<launched_process, alive, spawned>>

\* status: running and pid are read under the lock
status_poll(r) ==
    /\ pc[r] = "status: poll"
    /\ Leave(r, IF Running THEN "status: running" ELSE "status: not running")
    /\ UNCHANGED <<launched_process, alive, spawned>>

\* the user closes the window of a GUI process
ProcessExit(p) ==
    /\ p \in alive
    /\ alive' = alive \ {p}
    /\ UNCHANGED <<launched_process, launched_lock, spawned, pc>>

ServerStep ==
    \/ \E r \in Requests, route \in {"launch", "status"} : Arrive(r, route)
    \/ \E r \in Requests : AcquireLock(r, "launch", "launch: check")
    \/ \E r \in Requests : launch_check(r)
    \/ \E r \in Requests, exists \in BOOLEAN : launch_exists(r, exists)
    \/ \E r \in Requests, started \in BOOLEAN : launch_popen(r, started)
    \/ \E r \in Requests : launch_end(r)
    \/ \E r \in Requests : AcquireLock(r, "status", "status: poll")
    \/ \E r \in Requests : status_poll(r)
    \/ \E p \in alive : ProcessExit(p)

InitServer ==
    /\ InitSequencer /\ InitNoCall /\ InitPlayer /\ InitOutputs /\ InitNoGrid
    /\ launched_process = NoProcess
    /\ launched_lock = NoRequest
    /\ alive = {}
    /\ spawned = 0
    /\ pc = [r \in Requests |-> "none"]

NextServer ==
    /\ ServerStep
    /\ UNCHANGED <<seqVars, policyVars, vpVars, playVars, exportVars, saved,
                   drawVars, opVars, step_error, gridVars>>

SpecServer == InitServer /\ [][NextServer]_vars

-----------------------------------------------------------------------------
(* Claims about the viewport resolver.                                     *)

\* the frame of a compute_viewport call, its grid and its mode after
\* "mode = mode or self.viewport_mode"
CallFrame == vp_call.frames[1]
CallMode == IF vp_call.mode = NoMode THEN viewport_mode ELSE vp_call.mode
SingleStickFigureCall ==
    vp_call.fn = "compute_viewport" /\ CallMode = "stick-figure"
FrameContent(f) == ContentKeys(f.boxes, f.default_color)

\* the cell of key lies in the viewport vp
KeyInViewport(key, vp) ==
    /\ vp[1] <= key[2] /\ key[2] < vp[1] + vp[3]
    /\ vp[2] <= key[1] /\ key[1] < vp[2] + vp[4]

\* the viewport vp lies in a grid of gw x gh cells
ViewportInGrid(vp, gw, gh) ==
    /\ 0 <= vp[1] /\ vp[1] + vp[3] <= gw
    /\ 0 <= vp[2] /\ vp[2] + vp[4] <= gh

\* C1 as stated: in 'stick-figure' mode, for a frame with at least one boxes
\* entry (keys in-bounds), the viewport contains the cell of EVERY entry and
\* lies in the grid.
C1_EveryEntryInViewport ==
    (SingleStickFigureCall /\ DOMAIN CallFrame.boxes # {}) =>
        /\ \A key \in DOMAIN CallFrame.boxes : KeyInViewport(key, vp_result)
        /\ ViewportInGrid(vp_result, CallFrame.grid_width, CallFrame.grid_height)

\* C1 amended: in 'stick-figure' mode, for a frame with at least one boxes
\* entry (keys in-bounds), the viewport contains the cell of every entry whose
\* value differs from the frame's default_color, and lies in the grid.
C1_ContentInViewport ==
    (SingleStickFigureCall /\ DOMAIN CallFrame.boxes # {}) =>
        /\ \A key \in FrameContent(CallFrame) : KeyInViewport(key, vp_result)
        /\ ViewportInGrid(vp_result, CallFrame.grid_width, CallFrame.grid_height)

\* C1 witness: a stick-figure viewport of a frame with two content cells in
\* different rows and columns that crops the grid.
C1_Witness ==
    /\ SingleStickFigureCall
    /\ \E k1, k2 \in FrameContent(CallFrame) : k1[1] # k2[1] /\ k1[2] # k2[2]
    /\ vp_result[3] < CallFrame.grid_width
    /\ \A key \in FrameContent(CallFrame) : KeyInViewport(key, vp_result)

\* C2 as stated: for non-empty content the viewport of compute_viewport
\* ('stick-figure') and of compute_global_viewport is at least min_w wide when
\* the grid is, and at least min_h high when the grid is.
C2_MinimumSizeReached ==
    ( /\ SingleStickFigureCall \/ vp_call.fn = "compute_global_viewport"
      /\ Len(vp_call.frames) = 1
      /\ FrameContent(CallFrame) # {} ) =>
        /\ CallFrame.grid_width >= vp_call.min_w => vp_result[3] >= vp_call.min_w
        /\ CallFrame.grid_height >= vp_call.min_h => vp_result[4] >= vp_call.min_h

\* C3: in 'stick-figure' mode a frame with no entry differing from its
\* default colour gets the viewport of min(gw, min_w) x min(gh, min_h) cells
\* centred in the grid.
C3_EmptyFrameCentred ==
    (SingleStickFigureCall /\ FrameContent(CallFrame) = {}) =>
        LET gw == CallFrame.grid_width
            gh == CallFrame.grid_height
            w == Min(gw, vp_call.min_w)
            h == Min(gh, vp_call.min_h)
        IN  vp_result = <<(gw - w) \div 2, (gh - h) \div 2, w, h>>

\* C3 witness: a frame whose only entries hold the default colour, resolved
\* to a viewport smaller than the grid and not at its origin.
C3_Witness ==
    /\ SingleStickFigureCall
    /\ DOMAIN CallFrame.boxes # {}
    /\ FrameContent(CallFrame) = {}
    /\ vp_result[1] > 0
    /\ vp_result[3] = vp_call.min_w

\* C4 as stated: the viewport of compute_global_viewport on a non-empty
\* sequence contains every non-default cell of every frame of the sequence.
C4_GlobalCoversEveryFrame ==
    (vp_call.fn = "compute_global_viewport" /\ vp_call.frames # <<>>) =>
        \A i \in 1..Len(vp_call.frames) :
            \A key \in FrameContent(vp_call.frames[i]) :
                KeyInViewport(key, vp_result)

\* the lists holding the elements of fs in every order
Orderings(fs) ==
    LET n == Len(fs)
        bij == {p \in [1..n -> 1..n] : \A i, j \in 1..n : i # j => p[i] # p[j]}
    IN  {[i \in 1..n |-> fs[p[i]]] : p \in bij}

\* C5 as stated: compute_global_viewport returns the same viewport for every
\* permutation of the list of frames.
C5_GlobalOrderIndependent ==
    (vp_call.fn = "compute_global_viewport" /\ vp_call.frames # <<>>) =>
        \A fs \in Orderings(vp_call.frames) :
            compute_global_viewport(fs, vp_call.padding,
                                    vp_call.min_w, vp_call.min_h) = vp_result

\* C6 as stated: every viewport the resolver returns has width > 0 and
\* height > 0 and lies in the grid (of every frame it was computed from; of
\* the sequencer when the sequence is empty).
C6_ViewportValid ==
    (vp_call.fn # "none") =>
        /\ vp_result[3] > 0
        /\ vp_result[4] > 0
        /\ \A i \in 1..Len(vp_call.frames) :
              ViewportInGrid(vp_result, vp_call.frames[i].grid_width,
                             vp_call.frames[i].grid_height)
        /\ vp_call.frames = <<>> =>
              ViewportInGrid(vp_result, grid_width, grid_height)

\* C7 as stated: compute_viewport called with a mode that is none of 'full',
\* 'half', 'stick-figure' returns the full grid.
C7_UnknownModeIsFull ==
    (vp_call.fn = "compute_viewport"
       /\ vp_call.mode \notin {"full", "half", "stick-figure"}) =>
        vp_result = <<0, 0, CallFrame.grid_width, CallFrame.grid_height>>

-----------------------------------------------------------------------------
(* Claims about playback.                                                  *)

\* the draws of the play numbered ch, in order
RendersOf(log, ch) == SelectSeq(log, LAMBDA r : r.chain = ch)

\* C8 as stated: at most one playback loop is active: while the running flag
\* is set, the pending step callbacks all belong to one play.
C8_SinglePlaybackLoop ==
    running_flag => Cardinality({cb.chain : cb \in pending}) <= 1

\* C9 as stated: a playback loop that was active when stop() was called
\* draws no further frame, whatever follows the stop.
C9_StoppedLoopDrawsNothing ==
    [][\A ch \in stopped : RendersOf(rendered', ch) = RendersOf(rendered, ch)]_vars

\* C10 as stated: an uninterrupted playback of n >= 1 frames draws, without
\* loop, the indices 0, 1, ..., n-1 in order and once each and is then idle
\* (flag cleared, nothing pending); with loop, index 0 follows index n-1 and
\* the playback is never idle.
C10_UninterruptedPlayback ==
    clean =>
        LET n == Len(frames)
            r == RendersOf(rendered, plays)
        IN  IF ~running_loop
            THEN /\ Len(r) <= n
                 /\ \A i \in 1..Len(r) : r[i].index = i - 1
                 /\ pending = {} => (Len(r) = n /\ ~running_flag)
            ELSE /\ \A i \in 1..Len(r) : r[i].index = (i - 1) % n
                 /\ running_flag
                 /\ pending # {}

-----------------------------------------------------------------------------
(* Claims about export, files and editing.                                 *)

\* round(a / b) for a >= 0, b > 0, a half rounded up
RoundDiv(a, b) == (2 * a + b) \div (2 * b)

\* an export that wrote a stream, of a sequence with positive durations
ExportDone ==
    /\ op_call.fn = "export_to_video"
    /\ op_result = "True"
    /\ \A i \in 1..Len(timings) : timings[i] > 0

\* C11 as stated: export_to_video emits, for the frames in index order,
\* exactly max(1, round(fps * durationMs / 1000)) copies of each frame's image.
C11_ExportRepeatsRounded ==
    ExportDone =>
        /\ \A k \in 1..(Len(images) - 1) : images[k].index <= images[k + 1].index
        /\ \A i \in 1..Len(frames) :
              Cardinality({k \in 1..Len(images) : images[k].index = i - 1})
                  = Max(1, RoundDiv(export_fps * timings[i], 1000))

\* C12: save_animation followed by load_animation of the written file into a
\* new object reproduces the frames, timings, backgrounds, frame names and
\* the viewport policy of the saved object.
C12_SaveLoadRoundTrip ==
    (op_call.fn = "load_animation" /\ op_call.round_trip) =>
        ObjectFields = op_call.original

\* C12 witness: a round trip of two frames, one with a background and one
\* without, with durations and a policy that differ from the defaults.
C12_Witness ==
    /\ op_call.fn = "load_animation" /\ op_call.round_trip
    /\ Len(frames) = 2
    /\ backgrounds[1] = NoBackground /\ backgrounds[2] = BackgroundDoc
    /\ timings[1] # DefaultDuration
    /\ viewport_mode = "stick-figure" /\ viewport_padding = 0 /\ ~lock_viewport

\* C13 as stated: after load_animation of a document that contains 'frames',
\* timings, backgrounds and frame_names each have len(frames) elements.
C13_LoadFillsDefaults ==
    (op_call.fn = "load_animation" /\ ~op_call.round_trip) =>
        /\ Len(timings) = Len(frames)
        /\ Len(backgrounds) = Len(frames)
        /\ Len(frame_names) = Len(frames)

\* a move that returned True, the frame it moved in before and after, and the
\* moved set S: the painted cells in the rectangle (move_selection) or among
\* the coordinates (translate_object)
Moved == op_call.fn \in {"move_selection", "translate_object"} /\ op_result = "True"
MovedBefore == Get(op_call.before[op_call.frame_index + 1], "boxes", <<>>)
MovedAfter == frames[op_call.frame_index + 1].boxes
MovedSet ==
    IF op_call.fn = "move_selection"
    THEN {key \in DOMAIN MovedBefore : InSelection(key, op_call.sel)}
    ELSE {key \in DOMAIN MovedBefore :
             \E i \in 1..Len(op_call.coords) : op_call.coords[i] = key}
MovedTo(key) == <<key[1] + op_call.dr, key[2] + op_call.dc>>
MovedInGrid ==
    {key \in MovedSet :
        /\ 0 <= MovedTo(key)[1]
        /\ MovedTo(key)[1] < op_call.before[op_call.frame_index + 1].grid_height
        /\ 0 <= MovedTo(key)[2]
        /\ MovedTo(key)[2] < op_call.before[op_call.frame_index + 1].grid_width}

\* C14: a move is a batch move: the painted cells afterwards are those not
\* moved together with the destinations inside the grid; every destination
\* holds the value of its source, also when it is the source of another moved
\* cell; destinations outside the grid are dropped; the cells that were not
\* moved and are no destination keep their value; other frames are untouched.
C14_BatchMove ==
    Moved =>
        /\ DOMAIN MovedAfter =
              (DOMAIN MovedBefore \ MovedSet) \cup {MovedTo(key) : key \in MovedInGrid}
        /\ \A key \in MovedInGrid :
              MovedTo(key) \notin (DOMAIN MovedBefore \ MovedSet) =>
                  MovedAfter[MovedTo(key)] = MovedBefore[key]
        /\ \A key \in DOMAIN MovedBefore \ MovedSet :
              key \notin {MovedTo(k) : k \in MovedInGrid} =>
                  MovedAfter[key] = MovedBefore[key]
        /\ \A j \in 1..Len(frames) :
              j # op_call.frame_index + 1 => frames[j] = op_call.before[j]

\* C14 witness: two painted cells are moved by move_selection, one onto the
\* place the other one left, and both are painted at their destinations.
C14_Witness ==
    /\ Moved /\ op_call.fn = "move_selection"
    /\ Cardinality(MovedInGrid) = 2
    /\ \E k1, k2 \in MovedInGrid : k1 # k2 /\ MovedTo(k1) = k2
    /\ \A key \in MovedInGrid : MovedAfter[MovedTo(key)] = MovedBefore[key]

\* C15 as stated: move_selection never overwrites a box outside the
\* selection: every painted cell that is not moved keeps its value.
C15_UnmovedCellsKept ==
    (Moved /\ op_call.fn = "move_selection") =>
        \A key \in DOMAIN MovedBefore \ MovedSet :
            key \in DOMAIN MovedAfter /\ MovedAfter[key] = MovedBefore[key]

\* C16 as stated: after any sequence of appends every stored duration is > 0.
C16_DurationsPositive ==
    \A i \in 1..Len(timings) : timings[i] > 0

\* the frame without its malformed keys
WellFormed(f) ==
    [f EXCEPT !.boxes = [key \in {k \in DOMAIN f.boxes : ParseOk(k)} |-> f.boxes[key]]]

\* C17 as stated: a boxes key that is not 'row,col' is skipped and the other
\* entries are processed normally: no operation fails on it, and the viewport
\* is the one of the frame without the key.
C17_MalformedKeysSkipped ==
    /\ op_result # "ValueError"
    /\ vp_call.fn = "compute_viewport" =>
          vp_result = compute_viewport(WellFormed(CallFrame), vp_call.mode,
                          vp_call.padding, vp_call.min_w, vp_call.min_h)

-----------------------------------------------------------------------------
(* Claims about the compositor.                                            *)

Drawn == draw_call.fn # "none"
DrawnFrame == draw_call.frame
DrawnBackground == draw_call.background
DrawnCells == ViewportCells(draw_call.viewport)
DrawnBoxes == Get(DrawnFrame, "boxes", <<>>)
DrawnDefault == Get(DrawnFrame, "default_color", 0)
DrawnStyled == "stick_figure_color" \in DOMAIN DrawnFrame

\* white and black as the called function writes them
Paint(name) == IF draw_call.fn = "draw_frame_to_image" THEN Rgb(name) ELSE TkColor(name)

\* the default fill of a layer: white for defaultColor 0 and black otherwise
DefaultFill(dflt) == IF dflt = 0 THEN Paint("white") ELSE Paint("black")

\* the background cells that show: a background with entries is given and
\* the frame has no entry over the cell
BackgroundShows(cell) ==
    /\ BackgroundDrawn(DrawnBackground)
    /\ cell \notin DOMAIN DrawnBoxes

\* C18 as stated: in each layer, for every integer value, an entry is drawn
\* as ink (a colour other than the default fill of the layer) exactly when
\* its value differs from the defaultColor of the layer, on the image and on
\* the canvas.  Frames with a style override are left to C19.
C18_InkByEquality ==
    (Drawn /\ ~DrawnStyled) =>
        \A cell \in DrawnCells :
            /\ cell \in DOMAIN DrawnBoxes =>
                  ((draw_result[cell] # DefaultFill(DrawnDefault))
                      <=> (DrawnBoxes[cell] # DrawnDefault))
            /\ (BackgroundShows(cell) /\ cell \in DOMAIN DrawnBackground.boxes) =>
                  ((draw_result[cell] # DefaultFill(Get(DrawnBackground, "default_color", 0)))
                      <=> (DrawnBackground.boxes[cell] # Get(DrawnBackground, "default_color", 0)))

\* the style override of the drawn frame as the called function writes it
DrawnOverride ==
    IF draw_call.fn = "draw_frame_to_image"
    THEN ImageDrawColor(DrawnFrame.stick_figure_color, White)
    ELSE DrawnFrame.stick_figure_color

\* C19 as stated: with a style override, a foreground entry is drawn in the
\* override colour exactly when it resolves to ink (its value differs from
\* the frame's defaultColor); an entry that is not ink is drawn in the
\* default fill and not in the override colour.
C19_OverrideOnlyOnInk ==
    (Drawn /\ DrawnStyled) =>
        \A cell \in DrawnCells \cap DOMAIN DrawnBoxes :
            IF DrawnBoxes[cell] # DrawnDefault
            THEN draw_result[cell] = DrawnOverride
            ELSE draw_result[cell] = DefaultFill(DrawnDefault)

\* a layer cut down to the entries inside the viewport
InsideViewport(layer) ==
    IF layer = NoBackground \/ "boxes" \notin DOMAIN layer THEN layer
    ELSE [layer EXCEPT !.boxes =
             [cell \in DOMAIN layer.boxes \cap DrawnCells |-> layer.boxes[cell]]]

\* the colour of the background at a cell: its entry, or its default fill
\* when the key is absent
BackgroundColour(cell) ==
    LET bg_boxes == Get(DrawnBackground, "boxes", <<>>)
        bg_default == Get(DrawnBackground, "default_color", 0)
    IN  IF cell \in DOMAIN bg_boxes
        THEN Rgb(LayerInk(bg_boxes[cell], bg_default))
        ELSE DefaultFill(bg_default)

\* C20 as stated: every cell of the viewport of an image has the colour of
\* the foreground entry if the frame has one there (whatever the background
\* is); otherwise the colour of the background at the cell if a background is
\* given, and white if there is none; entries outside the viewport change
\* nothing.
C20_ForegroundOverBackground ==
    (Drawn /\ draw_call.fn = "draw_frame_to_image") =>
        /\ DOMAIN draw_result = DrawnCells
        /\ \A cell \in DrawnCells :
              draw_result[cell] =
                  IF cell \in DOMAIN DrawnBoxes
                  THEN draw_frame_to_image(DrawnFrame, NoBackground, draw_call.viewport)[cell]
                  ELSE IF DrawnBackground # NoBackground
                  THEN BackgroundColour(cell)
                  ELSE White
        /\ draw_result = draw_frame_to_image(InsideViewport(DrawnFrame),
                             InsideViewport(DrawnBackground), draw_call.viewport)

-----------------------------------------------------------------------------
(* Claims about the shape primitives, the editors, the servers and the     *)
(* sequence as a whole.                                                    *)

\* a frame_index outside [0, len(frames))
BadIndex(frame_index) == frame_index < 0 \/ frame_index >= Len(frames)

\* C24: move_selection and translate_object with a frame_index outside
\* [0, len(frames)) return False and leave frames, timings, backgrounds and
\* frame_names unchanged.
C24_BadIndexReturnsFalse ==
    [][(/\ op_call = NoOp
        /\ op_call'.fn \in {"move_selection", "translate_object"}
        /\ BadIndex(op_call'.frame_index))
          => (/\ op_result' = "False"
              /\ UNCHANGED <<frames, timings, backgrounds, frame_names>>)]_vars

\* C24 witness: move_selection was called with the index just past the last
\* frame of a sequence that has a frame, and returned False.
C24_Witness ==
    /\ op_call.fn = "move_selection"
    /\ Len(frames) >= 1
    /\ op_call.frame_index = Len(frames)
    /\ op_result = "False"
    /\ frames = op_call.before

\* the (r, g, b) value Tk shows for a fill: a '#rrggbb' colour, a colour name
\* in any case, and the white canvas where no rectangle was created
TkRgb(fill) ==
    IF fill = NoRectangle THEN White
    ELSE IF Head(fill) = "#" THEN hex_to_rgb(fill)
    ELSE IF Lower(fill) = <<"b", "l", "a", "c", "k">> THEN Black
    ELSE IF Lower(fill) = <<"r", "e", "d">> THEN <<255, 0, 0>>
    ELSE White

\* C25 as stated: for every frame, background and viewport, the canvas and
\* the image show the same colour in every cell of the viewport, also with
\* defaultColor 1 and with a style override.
C25_CanvasMatchesImage ==
    (draw_call.fn = "draw_frame_on_canvas") =>
        \A cell \in DrawnCells :
            TkRgb(draw_result[cell]) =
                draw_frame_to_image(DrawnFrame, DrawnBackground, draw_call.viewport)[cell]

\* C30: for a sequence of one frame f, compute_global_viewport
\* returns what compute_viewport(f, mode='stick-figure') returns for the same
\* padding and minimum sizes, with and without content.
C30_GlobalOfOneFrame ==
    (vp_call.fn = "compute_global_viewport" /\ Len(vp_call.frames) = 1) =>
        vp_result = compute_viewport(vp_call.frames[1], "stick-figure",
                        vp_call.padding, vp_call.min_w, vp_call.min_h)

\* C30 witness: compute_global_viewport was called on a sequence of one frame
\* with content and returned a window smaller than the grid.
C30_Witness ==
    /\ vp_call.fn = "compute_global_viewport"
    /\ Len(vp_call.frames) = 1
    /\ FrameContent(vp_call.frames[1]) # {}
    /\ vp_result[3] < vp_call.frames[1].grid_width
    /\ vp_result = compute_viewport(vp_call.frames[1], "stick-figure",
                       vp_call.padding, vp_call.min_w, vp_call.min_h)

\* C28 as stated: after any sequence of add_frame_from_json,
\* add_frame_from_template and load_animation_from_jsons calls, failed ones
\* included, the five lists have the same length, and a failed add leaves
\* them unchanged.
C28_ListsSameLength ==
    /\ \A i \in 1..5 : Len(Lists[i]) = Len(frames)
    /\ (/\ op_call.fn \in {"add_frame_from_json", "add_frame_from_template"}
        /\ op_result \in {"raised", "False"}) => Lists = op_call.before

\* C29 as stated: a playback step never reads frames, backgrounds or timings
\* at an index outside the lists, whatever edits happen between the steps, in
\* loop and non-loop playback: no step raises IndexError.
C29_StepIndexInRange ==
    step_error # "IndexError"

\* a draw_line call on valid endpoints, its deltas and the cells it changed
LineDrawn == grid_call.fn = "draw_line" /\ grid_result = "None"
LineDx == Abs(grid_call.x1 - grid_call.x0)
LineDy == Abs(grid_call.y1 - grid_call.y0)
LineSx == IF grid_call.x0 < grid_call.x1 THEN 1 ELSE -1
LineSy == IF grid_call.y0 < grid_call.y1 THEN 1 ELSE -1
Changed == {cell \in GridCells : grid[cell] # grid_call.before[cell]}

\* n / d rounded to the nearest integer, a half rounded down
Nearest(n, d) == (2 * n + d - 1) \div (2 * d)

\* the cells of the integer Bresenham line: one per coordinate of the major
\* axis, on the minor axis the cell nearest to the ideal line
Bresenham ==
    IF LineDx > LineDy
    THEN {<<grid_call.y0 + LineSy * Nearest(i * LineDy, LineDx),
            grid_call.x0 + LineSx * i>> : i \in 0..LineDx}
    ELSE IF LineDy = 0
    THEN {<<grid_call.y0, grid_call.x0>>}
    ELSE {<<grid_call.y0 + LineSy * i,
            grid_call.x0 + LineSx * Nearest(i * LineDx, LineDy)>> : i \in 0..LineDy}

\* C21: for in-bounds endpoints draw_line paints exactly the cells of the
\* integer Bresenham line: both endpoints are among them, there are
\* max(|dx|, |dy|) + 1 of them, one per coordinate of the major axis, each is
\* set to the colour, and no other cell of the grid changes.
C21_LineIsBresenham ==
    LineDrawn =>
        /\ Changed = Bresenham
        /\ <<grid_call.y0, grid_call.x0>> \in Changed
        /\ <<grid_call.y1, grid_call.x1>> \in Changed
        /\ Cardinality(Changed) = Max(LineDx, LineDy) + 1
        /\ IF LineDx > LineDy
           THEN \A i \in 0..LineDx :
                   Cardinality({cell \in Changed :
                       cell[2] = grid_call.x0 + LineSx * i}) = 1
           ELSE \A i \in 0..LineDy :
                   Cardinality({cell \in Changed :
                       cell[1] = grid_call.y0 + LineSy * i}) = 1
        /\ \A cell \in Changed : grid[cell] = grid_call.color

\* C21 witness: a line with dx > dy > 0 was drawn from right to left, and its
\* cells are the Bresenham cells.
C21_Witness ==
    /\ LineDrawn
    /\ LineDx > LineDy /\ LineDy > 1
    /\ LineSx = -1
    /\ Changed = Bresenham
    /\ Cardinality(Changed) = LineDx + 1

\* a cell whose distance to the centre of the drawn circle differs from the
\* radius by less than one cell
OnRing(cell) ==
    LET a == cell[2] - grid_call.cx
        b == cell[1] - grid_call.cy
        q == a * a + b * b
    IN  /\ (grid_call.radius - 1) * (grid_call.radius - 1) < q
        /\ q < (grid_call.radius + 1) * (grid_call.radius + 1)

\* C22: draw_circle with radius < 1 raises ValueError and leaves the grid as
\* it was; with radius >= 1 it returns normally for every centre and changes
\* only cells of the grid that lie on the circle, the points outside the grid
\* being skipped.
C22_CircleRadiusChecked ==
    grid_call.fn = "draw_circle" =>
        IF grid_call.radius < 1
        THEN grid_result = "ValueError" /\ grid = grid_call.before
        ELSE /\ grid_result = "None"
             /\ DOMAIN grid = GridCells
             /\ \A cell \in Changed : OnRing(cell) /\ grid[cell] = grid_call.color

\* C22 witness: a circle of radius 2 or more around a centre outside the
\* grid was drawn, and some of its points fell inside the grid.
C22_Witness ==
    /\ grid_call.fn = "draw_circle"
    /\ grid_call.radius >= 2
    /\ grid_call.cx = -1
    /\ grid_result = "None"
    /\ Changed # {}
    /\ \A cell \in Changed : OnRing(cell)

\* a circle that lies entirely inside the grid
CircleInside ==
    /\ grid_call.fn = "draw_circle" /\ grid_result = "None"
    /\ check_cordinates(grid_call.cx - grid_call.radius, grid_call.cy - grid_call.radius)
    /\ check_cordinates(grid_call.cx + grid_call.radius, grid_call.cy + grid_call.radius)

\* the cell at the offset (a, b) from the centre, x first, holds the colour
PaintedAt(a, b) ==
    /\ check_cordinates(grid_call.cx + a, grid_call.cy + b)
    /\ grid[<<grid_call.cy + b, grid_call.cx + a>>] = grid_call.color

\* C23: the cells painted by a circle that lies entirely inside the grid are
\* invariant under the rotation by 90 degrees about the centre: (cx + a,
\* cy + b) is painted if and only if (cx - b, cy + a) is.
C23_CircleRotationSymmetric ==
    (CircleInside /\ grid_call.color # grid_default) =>
        \A a \in (-MaxRadius)..MaxRadius, b \in (-MaxRadius)..MaxRadius :
            PaintedAt(a, b) <=> PaintedAt(-b, a)

\* C23 witness: a circle of radius 3 was drawn entirely inside the grid in the
\* contrast colour; (cx + 3, cy + 1) and its rotation (cx - 1, cy + 3) are
\* painted.
C23_Witness ==
    /\ CircleInside
    /\ grid_call.radius = 3
    /\ grid_call.color # grid_default
    /\ PaintedAt(3, 1) /\ PaintedAt(-1, 3)
    /\ ~PaintedAt(2, 1)

\* C27 as stated: clicks on one in-bounds cell cycle default -> contrast ->
\* red -> default from every reachable state of the editor: after three
\* clicks in a row on a cell it shows what it showed before them, the default
\* state if it started there.
C27_ThreeClicksCycle ==
    streak.n = 3 => Shown(streak.cell) = streak.start

\* C27 amended: the cycle holds as long as no click of the three is refused;
\* a click on a contrast cell is refused when max_joints (16) cells are red
\* already, and then the cell stays contrast and nothing changes.
C27_CycleUnlessJointsFull ==
    /\ (streak.n = 3 /\ ~streak.refused) => Shown(streak.cell) = streak.start
    /\ (grid_call.fn = "on_click" /\ grid_call.refused) =>
          /\ Cardinality({k \in DOMAIN special_squares : special_squares[k] = 1})
                >= max_joints
          /\ Shown(grid_call.key) = 1

\* C27 witness: three clicks in a row on a cell that showed the default took
\* it through contrast and red back to the default, with none refused.
C27_Witness ==
    /\ streak.n = 3 /\ ~streak.refused
    /\ streak.start = 0
    /\ grid_call.state = 2
    /\ Shown(streak.cell) = 0

\* C26: under any interleaving of /launch and /status requests at most one
\* GUI process started by the server is alive, and a process is started only
\* when none is: a launch request that finds the tracked process running
\* starts none.
C26_OneGuiProcess ==
    /\ [](Cardinality(alive) <= 1)
    /\ [][spawned' # spawned => alive = {}]_vars

\* C26 witness: a launch request found the process of an earlier launch
\* running and started nothing, while another launch request waits for the
\* lock.
C26_Witness ==
    /\ \E r \in Requests : pc[r] = "launch: already running"
    /\ \E r \in Requests : pc[r] = "launch: started"
    /\ \E r \in Requests : pc[r] = "launch"
    /\ Cardinality(alive) = 1
    /\ spawned = 1

====
